---- MODULE Spec2Model ----
(***************************************************************************)
(* A model of the block-buffered hashing framework of the hashes           *)
(* repository: the per-algorithm cores (update_blocks, finalize_*_core,    *)
(* default, reset, new), the block buffers they are driven through, the    *)
(* padding policies, and the fixed / variable / extendable output          *)
(* disciplines.                                                            *)
(*                                                                         *)
(* Compression functions and permutations whose bodies are not part of    *)
(* the modelled sources are kept uninterpreted: a compression state is the *)
(* initial vector together with the sequence of inputs compressed into it, *)
(* so two states are equal in the model only if the code computes them by  *)
(* the same sequence of compressions from the same initial vector.         *)
(***************************************************************************)
EXTENDS Integers, Sequences, FiniteSets, TLC

\* ------------------------------------------------------------------------
\* Bounds of the model
\* ------------------------------------------------------------------------

\* number of update calls explored per hasher
MaxUpdates == 3

\* ------------------------------------------------------------------------
\* Byte strings
\* ------------------------------------------------------------------------

Take(s, n) == SubSeq(s, 1, n)

Drop(s, n) == SubSeq(s, n + 1, Len(s))

Rep(v, n) == [i \in 1..n |-> v]

Reverse(s) == [i \in 1..Len(s) |-> s[Len(s) + 1 - i]]

RECURSIVE Flatten(_)
Flatten(ss) == IF ss = <<>> THEN <<>> ELSE Head(ss) \o Flatten(Tail(ss))

\* slice[pos..][..n].copy_from_slice(data): data written at offset pos
CopyAt(buf, pos, data) ==
    [i \in 1..Len(buf) |->
        IF i > pos /\ i <= pos + Len(data) THEN data[i - pos] ELSE buf[i]]

\* for b in &mut slice[pos..] { *b = v }
FillFrom(buf, pos, v) == [i \in 1..Len(buf) |-> IF i > pos THEN v ELSE buf[i]]

\* ------------------------------------------------------------------------
\* Fixed-width unsigned integers (u32, u64, u128), kept as little-endian
\* sequences of 16-bit limbs so that every operation keeps its width.
\* ------------------------------------------------------------------------

Limb == 256 * 256

RECURSIVE WNat(_, _)
\*  n as an unsigned integer of w limbs (n taken modulo 2^(16w))
WNat(n, w) == IF w = 0 THEN <<>> ELSE <<n % Limb>> \o WNat(n \div Limb, w - 1)

RECURSIVE WAddC(_, _, _)
WAddC(a, b, carry) ==
    IF a = <<>> THEN <<>>
    ELSE LET s == Head(a) + Head(b) + carry
         IN  <<s % Limb>> \o WAddC(Tail(a), Tail(b), s \div Limb)

\* a.wrapping_add(b)
WAdd(a, b) == WAddC(a, b, 0)

RECURSIVE WMulC(_, _, _)
WMulC(a, k, carry) ==
    IF a = <<>> THEN <<>>
    ELSE LET s == Head(a) * k + carry
         IN  <<s % Limb>> \o WMulC(Tail(a), k, s \div Limb)

\* a.wrapping_mul(k) for a small constant k
WMul(a, k) == WMulC(a, k, 0)

RECURSIVE WAddCarryOut(_, _, _)
\* the carry out of the top limb of a + b
WAddCarryOut(a, b, carry) ==
    IF a = <<>> THEN carry
    ELSE WAddCarryOut(Tail(a), Tail(b), (Head(a) + Head(b) + carry) \div Limb)

\* a + b does not fit the width: `a + b` panics when the build checks
\* arithmetic overflow, and wraps when it does not
WAddOverflows(a, b) == WAddCarryOut(a, b, 0) # 0

RECURSIVE WMulCarryOut(_, _, _)
WMulCarryOut(a, k, carry) ==
    IF a = <<>> THEN carry
    ELSE WMulCarryOut(Tail(a), k, (Head(a) * k + carry) \div Limb)

\* a * k does not fit the width
WMulOverflows(a, k) == WMulCarryOut(a, k, 0) # 0

\* 2^e - 1 as an unsigned integer of w limbs
WOnes(e, w) ==
    [i \in 1..w |-> IF 16 * i <= e THEN Limb - 1
                    ELSE IF 16 * (i - 1) >= e THEN 0
                    ELSE 2 ^ (e - 16 * (i - 1)) - 1]

\* a - k for a small k not above the low limb of a
WSubSmall(a, k) == [a EXCEPT ![1] = @ - k]

\* a as u<16w>, zero-extended or truncated (the `as` cast between unsigned ints)
WCast(a, w) == [i \in 1..w |-> IF i <= Len(a) THEN a[i] ELSE 0]

\* a >> 32
WShr32(a) == [i \in 1..Len(a) |-> IF i + 2 <= Len(a) THEN a[i + 2] ELSE 0]

\* v.to_le_bytes()
WToLeBytes(a) == [i \in 1..(2 * Len(a)) |->
                    IF i % 2 = 1 THEN a[(i + 1) \div 2] % 256
                    ELSE a[i \div 2] \div 256]

\* v.to_be_bytes()
WToBeBytes(a) == Reverse(WToLeBytes(a))

\* uN::from_le_bytes(bytes)
WFromLeBytes(bytes) ==
    [i \in 1..(Len(bytes) \div 2) |-> bytes[2 * i - 1] + 256 * bytes[2 * i]]

RECURSIVE XorBits(_, _, _)
XorBits(x, y, n) ==
    IF n = 0 THEN 0
    ELSE ((x + y) % 2) + 2 * XorBits(x \div 2, y \div 2, n - 1)

\* a ^ b
WXor(a, b) == [i \in 1..Len(a) |-> XorBits(a[i], b[i], 16)]

\* x | 0x80 on a byte
Or80(x) == IF (x \div 128) % 2 = 1 THEN x ELSE x + 128

\* ------------------------------------------------------------------------
\* Block buffers (digest::block_buffer).  A buffer is the record
\* [buffer |-> the block-sized byte array, pos |-> the cursor].  Operations
\* that hand blocks to a closure return the blocks (or slices of blocks) in
\* the order of the calls, and the caller folds the core over them.
\* ------------------------------------------------------------------------

\* BlockBuffer::default() / LazyBlockBuffer::default()
BufferDefault(bs) == [buffer |-> Rep(0, bs), pos |-> 0]

\* get_pos()
GetPos(b) == b.pos

\* size()
BufSize(b) == Len(b.buffer)

\* remaining()
Remaining(b) == BufSize(b) - b.pos

\* reset(): only the cursor is rewound
BufferReset(b) == [b EXCEPT !.pos = 0]

\* to_blocks: the full blocks of data and the leftover (shorter than a block)
ToBlocks(data, bs) ==
    LET nb == Len(data) \div bs
    IN  [blocks   |-> [i \in 1..nb |-> SubSeq(data, (i - 1) * bs + 1, i * bs)],
         leftover |-> Drop(data, nb * bs)]

\* the lazy split: the last block is kept back even when it is full
ToBlocksLazy(data, bs) ==
    LET nb == IF Len(data) = 0 THEN 0
              ELSE IF Len(data) % bs = 0 THEN Len(data) \div bs - 1
              ELSE Len(data) \div bs
    IN  [blocks   |-> [i \in 1..nb |-> SubSeq(data, (i - 1) * bs + 1, i * bs)],
         leftover |-> Drop(data, nb * bs)]

\* the part of digest_blocks after the early return, common to both buffers
DigestBlocksTail(b, input, lazy) ==
    LET bs    == BufSize(b)
        pos   == b.pos
        r     == Remaining(b)
        head  == IF pos # 0 THEN CopyAt(b.buffer, pos, Take(input, r)) ELSE b.buffer
        first == IF pos # 0 THEN << <<head>> >> ELSE <<>>
        rest  == IF pos # 0 THEN Drop(input, r) ELSE input
        sp    == IF lazy THEN ToBlocksLazy(rest, bs) ELSE ToBlocks(rest, bs)
        more  == IF sp.blocks # <<>> THEN <<sp.blocks>> ELSE <<>>
    IN  [buf   |-> [buffer |-> CopyAt(head, 0, sp.leftover), pos |-> Len(sp.leftover)],
         calls |-> first \o more]

\* a variant that hands the buffer to compress on every call
DigestBlocksAlways(b, input) ==
    IF Len(input) < Remaining(b)
    THEN [buf   |-> [buffer |-> CopyAt(b.buffer, b.pos, input),
                     pos    |-> b.pos + Len(input)],
          calls |-> << <<CopyAt(b.buffer, b.pos, input)>> >>]
    ELSE DigestBlocksTail(b, input, FALSE)

\* BlockBuffer::digest_blocks(input, compress): eager, a full buffer is flushed
DigestBlocks(b, input) ==
    IF Len(input) < Remaining(b)
    THEN [buf   |-> [buffer |-> CopyAt(b.buffer, b.pos, input),
                     pos    |-> b.pos + Len(input)],
          calls |-> <<>>]
    ELSE DigestBlocksTail(b, input, FALSE)

\* a variant of the lazy buffer that flushes a full buffer at once
LazyDigestBlocksEager(b, input) == DigestBlocks(b, input)

\* LazyBlockBuffer::digest_blocks(input, compress): a full buffer is kept
LazyDigestBlocks(b, input) ==
    IF Len(input) <= Remaining(b)
    THEN [buf   |-> [buffer |-> CopyAt(b.buffer, b.pos, input),
                     pos    |-> b.pos + Len(input)],
          calls |-> <<>>]
    ELSE DigestBlocksTail(b, input, TRUE)

\* a variant that starts a second block as soon as the suffix fills the
\* first one to its end
DigestPadEager(b, delim, suffix) ==
    LET bs     == BufSize(b)
        pos    == b.pos
        n      == bs - Len(suffix)
        padded == FillFrom(CopyAt(b.buffer, pos, <<delim>>), pos + 1, 0)
    IN  IF Len(suffix) > bs \/ pos >= bs
        THEN [ok |-> FALSE, buf |-> b, blocks |-> <<>>]
        ELSE IF bs - pos - 1 <= Len(suffix)
        THEN [ok     |-> TRUE,
              buf    |-> [buffer |-> padded, pos |-> 0],
              blocks |-> <<padded, CopyAt(Rep(0, bs), n, suffix)>>]
        ELSE [ok     |-> TRUE,
              buf    |-> [buffer |-> CopyAt(padded, n, suffix), pos |-> 0],
              blocks |-> <<CopyAt(padded, n, suffix)>>]

\* BlockBuffer::digest_pad(delim, suffix, compress): one block, or two when the
\* suffix does not fit behind the delimiter.  Writing the delimiter at a
\* position outside the block, or a suffix longer than a block, panics.
DigestPad(b, delim, suffix) ==
    LET bs     == BufSize(b)
        pos    == b.pos
        n      == bs - Len(suffix)
        padded == FillFrom(CopyAt(b.buffer, pos, <<delim>>), pos + 1, 0)
    IN  IF Len(suffix) > bs \/ pos >= bs
        THEN [ok |-> FALSE, buf |-> b, blocks |-> <<>>]
        ELSE IF bs - pos - 1 < Len(suffix)
        THEN [ok     |-> TRUE,
              buf    |-> [buffer |-> padded, pos |-> 0],
              blocks |-> <<padded, CopyAt(Rep(0, bs), n, suffix)>>]
        ELSE [ok     |-> TRUE,
              buf    |-> [buffer |-> CopyAt(padded, n, suffix), pos |-> 0],
              blocks |-> <<CopyAt(padded, n, suffix)>>]

\* len64_padding_be(data_len, compress)
Len64PaddingBe(b, data_len) == DigestPad(b, 128, WToBeBytes(data_len))

\* len64_padding_le(data_len, compress)
Len64PaddingLe(b, data_len) == DigestPad(b, 128, WToLeBytes(data_len))

\* pad_with::<P>(): Err(PadError) when the padding refuses the position
\* (r is what P::pad made of the buffer at its position)
PadWith(b, r) ==
    IF r.ok
    THEN [ok |-> TRUE, buf |-> [buffer |-> r.block, pos |-> 0], block |-> r.block]
    ELSE [ok |-> FALSE, buf |-> b, block |-> <<>>]

\* LazyBlockBuffer::pad_zeros()
PadZeros(b) ==
    LET block == FillFrom(b.buffer, b.pos, 0)
    IN  [buf |-> [buffer |-> block, pos |-> 0], block |-> block]

\* block_padding::Pkcs7::pad
Pkcs7Pad(block, pos) ==
    IF pos >= Len(block) THEN [ok |-> FALSE, block |-> block]
    ELSE [ok |-> TRUE, block |-> FillFrom(block, pos, Len(block) - pos)]

\* block_padding::Iso7816::pad
Iso7816Pad(block, pos) ==
    IF pos >= Len(block) THEN [ok |-> FALSE, block |-> block]
    ELSE [ok |-> TRUE, block |-> FillFrom(CopyAt(block, pos, <<128>>), pos + 1, 0)]

\* a variant that wants room for the pad byte and the final byte separately
Sha3PadTwoBytes(padbyte, block, pos) ==
    IF pos + 1 >= Len(block) THEN [ok |-> FALSE, block |-> block]
    ELSE LET z == FillFrom(CopyAt(block, pos, <<padbyte>>), pos + 1, 0)
         IN  [ok |-> TRUE, block |-> [z EXCEPT ![Len(z)] = Or80(@)]]

\* a variant that writes 0x80 over the last byte
Sha3PadOverwrite(padbyte, block, pos) ==
    IF pos >= Len(block) THEN [ok |-> FALSE, block |-> block]
    ELSE LET z == FillFrom(CopyAt(block, pos, <<padbyte>>), pos + 1, 0)
         IN  [ok |-> TRUE, block |-> [z EXCEPT ![Len(z)] = 128]]

\* sha3 paddings (impl_padding!): pad byte at pos, zeros, 0x80 or-ed into the end
Sha3Pad(padbyte, block, pos) ==
    IF pos >= Len(block) THEN [ok |-> FALSE, block |-> block]
    ELSE LET z == FillFrom(CopyAt(block, pos, <<padbyte>>), pos + 1, 0)
         IN  [ok |-> TRUE, block |-> [z EXCEPT ![Len(z)] = Or80(@)]]

KeccakPad(block, pos) == Sha3Pad(1, block, pos)

Sha3FipsPad(block, pos) == Sha3Pad(6, block, pos)

ShakePad(block, pos) == Sha3Pad(31, block, pos)

\* ------------------------------------------------------------------------
\* Uninterpreted compression states and their serialization
\* ------------------------------------------------------------------------

\* a u32 / u64 constant from its 16-bit groups, most significant first
W32(a, b) == <<b, a>>

W64(a, b, c, d) == <<d, c, b, a>>

\* the state an initial vector stands for, with nothing compressed yet
Fresh(iv) == [iv |-> iv, absorbed |-> <<>>]

\* compress(&mut state, blocks): every input is compressed in, in order
Compress(st, blocks) == [st EXCEPT !.absorbed = @ \o blocks]

\* v.to_le_bytes() of word w of a state: the byte of weight 256^b, b ascending
SymLe(w, n) == [k \in 1..n |-> [w |-> w, b |-> k - 1]]

\* v.to_be_bytes() of word w of a state
SymBe(w, n) == [k \in 1..n |-> [w |-> w, b |-> n - k]]

\* to_le_bytes or to_be_bytes, as order says
Ser(order, w, n) == IF order = "le" THEN SymLe(w, n) ELSE SymBe(w, n)

\* out.chunks_exact_mut(n).zip(words): the chunks written, in order
ChunksExactZip(outlen, n, words, order) ==
    LET m == IF outlen \div n < Len(words) THEN outlen \div n ELSE Len(words)
    IN  Flatten([j \in 1..m |-> Ser(order, words[j], n)])

\* out.chunks_mut(n).zip(words) with each chunk taking bytes[..chunk.len()]
ChunksZip(outlen, n, words, order) ==
    LET c == (outlen + n - 1) \div n
        m == IF c < Len(words) THEN c ELSE Len(words)
        all == Flatten([j \in 1..m |-> Ser(order, words[j], n)])
    IN  Take(all, IF outlen < Len(all) THEN outlen ELSE Len(all))

\* the words 0..n-1 of a state array
Words(n) == [i \in 1..n |-> i - 1]

\* ------------------------------------------------------------------------
\* MD5 (md5/src/lib.rs)
\* ------------------------------------------------------------------------

Md5Default ==
    [block_len |-> WNat(0, 4),
     state     |-> Fresh(<<W32(\h6745, \h2301), W32(\hEFCD, \hAB89),
                           W32(\h98BA, \hDCFE), W32(\h1032, \h5476)>>)]

\* a variant that counts one block per call, whatever the slice holds
Md5UpdateBlocksPerCall(core, blocks) ==
    [block_len |-> WAdd(core.block_len, WNat(1, 4)),
     state     |-> Compress(core.state, blocks)]

Md5UpdateBlocks(core, blocks) ==
    [block_len |-> WAdd(core.block_len, WNat(Len(blocks), 4)),
     state     |-> Compress(core.state, blocks)]

\* a variant that writes the bit length big-endian
Md5FinalizeFixedCoreBe(core, buffer) ==
    LET bit_len == WMul(WAdd(WMul(core.block_len, 64), WNat(GetPos(buffer), 4)), 8)
        p       == Len64PaddingBe(buffer, bit_len)
        s       == Compress(core.state, p.blocks)
    IN  [ok |-> p.ok, core |-> core, buf |-> p.buf,
         out |-> [state |-> s, bytes |-> ChunksExactZip(16, 4, Words(4), "le")]]

Md5FinalizeFixedCore(core, buffer) ==
    LET bit_len == WMul(WAdd(WMul(core.block_len, 64), WNat(GetPos(buffer), 4)), 8)
        p       == Len64PaddingLe(buffer, bit_len)
        s       == Compress(core.state, p.blocks)
    IN  [ok |-> p.ok, core |-> core, buf |-> p.buf,
         out |-> [state |-> s, bytes |-> ChunksExactZip(16, 4, Words(4), "le")]]

\* ------------------------------------------------------------------------
\* SHA-1 (sha1/src/lib.rs)
\* ------------------------------------------------------------------------

Sha1Default ==
    [h         |-> Fresh(<<W32(\h6745, \h2301), W32(\hEFCD, \hAB89),
                           W32(\h98BA, \hDCFE), W32(\h1032, \h5476),
                           W32(\hC3D2, \hE1F0)>>),
     block_len |-> WNat(0, 4)]

\* a variant that compresses the first block of a slice only
Sha1UpdateBlocksFirst(core, blocks) ==
    [h         |-> Compress(core.h, Take(blocks, 1)),
     block_len |-> WAdd(core.block_len, WNat(Len(blocks), 4))]

Sha1UpdateBlocks(core, blocks) ==
    [h         |-> Compress(core.h, blocks),
     block_len |-> WAdd(core.block_len, WNat(Len(blocks), 4))]

\* a variant that writes the length in bytes
Sha1FinalizeFixedCoreByteLen(core, buffer) ==
    LET bit_len == WAdd(WNat(GetPos(buffer), 4), WMul(core.block_len, 64))
        p       == Len64PaddingBe(buffer, bit_len)
        h       == Compress(core.h, p.blocks)
    IN  [ok |-> p.ok, core |-> core, buf |-> p.buf,
         out |-> [state |-> h, bytes |-> ChunksExactZip(20, 4, Words(5), "be")]]

Sha1FinalizeFixedCore(core, buffer) ==
    LET bit_len == WMul(WAdd(WNat(GetPos(buffer), 4), WMul(core.block_len, 64)), 8)
        p       == Len64PaddingBe(buffer, bit_len)
        h       == Compress(core.h, p.blocks)
    IN  [ok |-> p.ok, core |-> core, buf |-> p.buf,
         out |-> [state |-> h, bytes |-> ChunksExactZip(20, 4, Words(5), "be")]]

\* ------------------------------------------------------------------------
\* SHA-2 (sha2/src/lib.rs, implement!)
\* ------------------------------------------------------------------------

Sha2Names == {"Sha224", "Sha256", "Sha512Trunc224", "Sha512Trunc256",
              "Sha384", "Sha512"}

\* $word is u64 (and $dword u128, $block_size U128) for the SHA-512 family
Sha2Wide(name) == name \in {"Sha512Trunc224", "Sha512Trunc256", "Sha384", "Sha512"}

Sha2BlockSize(name) == IF Sha2Wide(name) THEN 128 ELSE 64

Sha2OutSize(name) ==
    CASE name = "Sha224" -> 28
      [] name = "Sha256" -> 32
      [] name = "Sha512Trunc224" -> 28
      [] name = "Sha512Trunc256" -> 32
      [] name = "Sha384" -> 48
      [] name = "Sha512" -> 64

\* limbs of $dword
Sha2DwordLimbs(name) == IF Sha2Wide(name) THEN 8 ELSE 4

\* size_of::<$word>()
Sha2WordSize(name) == IF Sha2Wide(name) THEN 8 ELSE 4

\* $init: the initial vector is named, its words are constants of consts.rs
Sha2Default(name) ==
    [state     |-> Fresh(<<"H", name>>),
     block_len |-> WNat(0, Sha2DwordLimbs(name))]

Sha2UpdateBlocks(name, core, blocks) ==
    [state     |-> Compress(core.state, blocks),
     block_len |-> WAdd(core.block_len, WNat(Len(blocks), Sha2DwordLimbs(name)))]

Sha2FinalizeFixedCore(name, core, buffer) ==
    LET w       == Sha2DwordLimbs(name)
        bit_len == WMul(WAdd(WNat(GetPos(buffer), w),
                             WMul(core.block_len, Sha2BlockSize(name))), 8)
        p       == DigestPad(buffer, 128, WToBeBytes(bit_len))
        s       == Compress(core.state, p.blocks)
    IN  [ok |-> p.ok, core |-> [core EXCEPT !.state = s], buf |-> p.buf,
         out |-> [state |-> s,
                  bytes |-> ChunksZip(Sha2OutSize(name), Sha2WordSize(name),
                                      Words(8), "be")]]

\* ------------------------------------------------------------------------
\* SM3 (sm3/src/lib.rs)
\* ------------------------------------------------------------------------

Sm3Default == [block_len |-> WNat(0, 4), h |-> Fresh(<<"H0", "Sm3">>)]

Sm3UpdateBlocks(core, blocks) ==
    [block_len |-> WAdd(core.block_len, WNat(Len(blocks), 4)),
     h         |-> Compress(core.h, blocks)]

Sm3FinalizeFixedCore(core, buffer) ==
    LET bit_len == WMul(WAdd(WNat(GetPos(buffer), 4), WMul(core.block_len, 64)), 8)
        p       == Len64PaddingBe(buffer, bit_len)
        h       == Compress(core.h, p.blocks)
    IN  [ok |-> p.ok, core |-> core, buf |-> p.buf,
         out |-> [state |-> h, bytes |-> ChunksExactZip(32, 4, Words(8), "be")]]

\* ------------------------------------------------------------------------
\* RIPEMD-160 and RIPEMD-320 (ripemd/src/lib.rs)
\* ------------------------------------------------------------------------

RipemdNames == {"Ripemd160", "Ripemd320"}

RipemdOutSize(name) == IF name = "Ripemd160" THEN 20 ELSE 40

RipemdDefault(name) ==
    [h |-> Fresh(<<"H0", name>>), block_len |-> WNat(0, 4)]

RipemdUpdateBlocks(name, core, blocks) ==
    [h         |-> Compress(core.h, blocks),
     block_len |-> WAdd(core.block_len, WNat(Len(blocks), 4))]

RipemdFinalizeFixedCore(name, core, buffer) ==
    LET bit_len == WMul(WAdd(WNat(GetPos(buffer), 4), WMul(core.block_len, 64)), 8)
        p       == Len64PaddingLe(buffer, bit_len)
        h       == Compress(core.h, p.blocks)
    IN  [ok |-> p.ok, core |-> core, buf |-> p.buf,
         out |-> [state |-> h,
                  bytes |-> ChunksExactZip(RipemdOutSize(name), 4,
                                           Words(RipemdOutSize(name) \div 4), "le")]]

\* ------------------------------------------------------------------------
\* Tiger and Tiger2 (tiger/src/lib.rs)
\* ------------------------------------------------------------------------

TigerDefault ==
    [block_len |-> WNat(0, 4),
     state     |-> Fresh(<<W64(\h0123, \h4567, \h89AB, \hCDEF),
                           W64(\hFEDC, \hBA98, \h7654, \h3210),
                           W64(\hF096, \hA5B4, \hC3B2, \hE187)>>)]

TigerUpdateBlocks(core, blocks) ==
    [block_len |-> WAdd(core.block_len, WNat(Len(blocks), 4)),
     state     |-> Compress(core.state, blocks)]

\* a variant of Tiger that pads with 0x80, as Tiger2 does
TigerFinalizeFixedCoreHighBit(core, buffer) ==
    LET bit_len == WMul(WAdd(WNat(GetPos(buffer), 4), WMul(core.block_len, 64)), 8)
        p       == DigestPad(buffer, 128, WToLeBytes(bit_len))
        s       == Compress(core.state, p.blocks)
    IN  [ok |-> p.ok, core |-> [core EXCEPT !.state = s], buf |-> p.buf,
         out |-> [state |-> s, bytes |-> ChunksExactZip(24, 8, Words(3), "le")]]

TigerFinalizeFixedCore(core, buffer) ==
    LET bit_len == WMul(WAdd(WNat(GetPos(buffer), 4), WMul(core.block_len, 64)), 8)
        p       == DigestPad(buffer, 1, WToLeBytes(bit_len))
        s       == Compress(core.state, p.blocks)
    IN  [ok |-> p.ok, core |-> [core EXCEPT !.state = s], buf |-> p.buf,
         out |-> [state |-> s, bytes |-> ChunksExactZip(24, 8, Words(3), "le")]]

Tiger2Default ==
    [block_len |-> WNat(0, 4),
     state     |-> Fresh(<<W64(\h0123, \h4567, \h89AB, \hCDEF),
                           W64(\hFEDC, \hBA98, \h7654, \h3210),
                           W64(\hF096, \hA5B4, \hC3B2, \hE187)>>)]

Tiger2UpdateBlocks(core, blocks) ==
    [block_len |-> WAdd(core.block_len, WNat(Len(blocks), 4)),
     state     |-> Compress(core.state, blocks)]

Tiger2FinalizeFixedCore(core, buffer) ==
    LET bit_len == WMul(WAdd(WNat(GetPos(buffer), 4), WMul(core.block_len, 64)), 8)
        p       == Len64PaddingLe(buffer, bit_len)
        s       == Compress(core.state, p.blocks)
    IN  [ok |-> p.ok, core |-> [core EXCEPT !.state = s], buf |-> p.buf,
         out |-> [state |-> s, bytes |-> ChunksExactZip(24, 8, Words(3), "le")]]

\* ------------------------------------------------------------------------
\* MD2 (md2/src/lib.rs).  Both the 48-byte state x and the checksum are
\* functions of the blocks compressed so far; a compressed input is either
\* a block of bytes or the checksum block, named by what it was computed from.
\* ------------------------------------------------------------------------

Md2Default == [x |-> Fresh(Rep(0, 48)), checksum |-> Fresh(Rep(0, 16))]

\* Md2Core::compress: "Update state", then "Update checksum"
Md2Compress(core, input) ==
    [x        |-> Compress(core.x, <<input>>),
     checksum |-> Compress(core.checksum, <<input>>)]

RECURSIVE Md2UpdateBlocks(_, _)
Md2UpdateBlocks(core, blocks) ==
    IF blocks = <<>> THEN core
    ELSE Md2UpdateBlocks(Md2Compress(core, [block |-> Head(blocks), sum |-> <<>>]),
                         Tail(blocks))

\* a variant that takes the checksum as it was before the padding block
Md2FinalizeFixedCoreEarlySum(core, buffer) ==
    LET p        == PadWith(buffer, Pkcs7Pad(buffer.buffer, buffer.pos))
        c1       == Md2Compress(core, [block |-> p.block, sum |-> <<>>])
        checksum == core.checksum
        c2       == Md2Compress(c1, [block |-> <<>>, sum |-> checksum.absorbed])
    IN  IF ~p.ok THEN [ok |-> FALSE, core |-> core, buf |-> p.buf, out |-> <<>>]
        ELSE [ok |-> TRUE, core |-> c2, buf |-> p.buf,
              out |-> [state |-> c2.x,
                       bytes |-> [k \in 1..16 |-> [w |-> k - 1, b |-> 0]]]]

Md2FinalizeFixedCore(core, buffer) ==
    LET p        == PadWith(buffer, Pkcs7Pad(buffer.buffer, buffer.pos))
        c1       == Md2Compress(core, [block |-> p.block, sum |-> <<>>])
        checksum == c1.checksum
        c2       == Md2Compress(c1, [block |-> <<>>, sum |-> checksum.absorbed])
    IN  IF ~p.ok THEN [ok |-> FALSE, core |-> core, buf |-> p.buf, out |-> <<>>]
        ELSE [ok |-> TRUE, core |-> c2, buf |-> p.buf,
              out |-> [state |-> c2.x,
                       bytes |-> [k \in 1..16 |-> [w |-> k - 1, b |-> 0]]]]

\* ------------------------------------------------------------------------
\* SHA-3, Keccak and SHAKE (sha3/src/macros.rs, sha3/src/lib.rs)
\* ------------------------------------------------------------------------

\* Sha3State::default(): 25 zero lanes
Sha3StateDefault == Fresh(Rep(WNat(0, 4), 25))

\* Sha3State::absorb_block: xor the block into the state, then permute
AbsorbBlock(state, block) == Compress(state, <<block>>)

\* Sha3State::apply_f: permute with nothing xored in
ApplyF(state) == Compress(state, << <<>> >>)

\* Sha3State::as_bytes: the first n bytes of the 25 lanes, little-endian
Sha3AsBytes(n) == Take(Flatten([j \in 1..25 |-> SymLe(j - 1, 8)]), n)

Sha3FixedNames == {"Keccak224", "Keccak256", "Keccak384", "Keccak512",
                   "Keccak256Full", "Sha3_224", "Sha3_256", "Sha3_384",
                   "Sha3_512"}

ShakeNames == {"Shake128", "Shake256"}

\* $rate
Sha3Rate(name) ==
    CASE name \in {"Keccak224", "Sha3_224"} -> 144
      [] name \in {"Keccak256", "Sha3_256", "Keccak256Full", "Shake256"} -> 136
      [] name \in {"Keccak384", "Sha3_384"} -> 104
      [] name \in {"Keccak512", "Sha3_512"} -> 72
      [] name = "Shake128" -> 168

\* $output_size
Sha3OutSize(name) ==
    CASE name \in {"Keccak224", "Sha3_224"} -> 28
      [] name \in {"Keccak256", "Sha3_256"} -> 32
      [] name \in {"Keccak384", "Sha3_384"} -> 48
      [] name \in {"Keccak512", "Sha3_512"} -> 64
      [] name = "Keccak256Full" -> 200

\* $padding
Sha3Padding(name, block, pos) ==
    CASE name \in {"Keccak224", "Keccak256", "Keccak384", "Keccak512",
                   "Keccak256Full"} -> KeccakPad(block, pos)
      [] name \in {"Sha3_224", "Sha3_256", "Sha3_384", "Sha3_512"} ->
             Sha3FipsPad(block, pos)
      [] name \in ShakeNames -> ShakePad(block, pos)

Sha3Default(name) == [state |-> Sha3StateDefault]

RECURSIVE Sha3UpdateBlocks(_, _, _)
Sha3UpdateBlocks(name, core, blocks) ==
    IF blocks = <<>> THEN core
    ELSE Sha3UpdateBlocks(name, [state |-> AbsorbBlock(core.state, Head(blocks))],
                          Tail(blocks))

Sha3FinalizeFixedCore(name, core, buffer) ==
    LET p  == PadWith(buffer, Sha3Padding(name, buffer.buffer, buffer.pos))
        st == AbsorbBlock(core.state, p.block)
    IN  IF ~p.ok THEN [ok |-> FALSE, core |-> core, buf |-> p.buf, out |-> <<>>]
        ELSE [ok |-> TRUE, core |-> [state |-> st], buf |-> p.buf,
              out |-> [state |-> st, bytes |-> Sha3AsBytes(Sha3OutSize(name))]]

\* a variant whose reader takes the state as it was before the padded block
ShakeFinalizeXofCoreEarly(name, core, buffer) ==
    LET p  == PadWith(buffer, Sha3Padding(name, buffer.buffer, buffer.pos))
        st == AbsorbBlock(core.state, p.block)
    IN  IF ~p.ok THEN [ok |-> FALSE, core |-> core, buf |-> p.buf, reader |-> <<>>]
        ELSE [ok |-> TRUE, core |-> [state |-> st], buf |-> p.buf,
              reader |-> [state |-> core.state]]

\* ExtendableOutputCore::finalize_xof_core: the reader gets a clone of the state
ShakeFinalizeXofCore(name, core, buffer) ==
    LET p  == PadWith(buffer, Sha3Padding(name, buffer.buffer, buffer.pos))
        st == AbsorbBlock(core.state, p.block)
    IN  IF ~p.ok THEN [ok |-> FALSE, core |-> core, buf |-> p.buf, reader |-> <<>>]
        ELSE [ok |-> TRUE, core |-> [state |-> st], buf |-> p.buf,
              reader |-> [state |-> st]]

\* a variant of read_block that does not permute the state afterwards
ShakeReadBlockNoPermute(name, reader) ==
    [block  |-> [state |-> reader.state, n |-> Sha3Rate(name)],
     reader |-> reader]

\* a variant of read_block that permutes the state before serializing it
ShakeReadBlockPermuteFirst(name, reader) ==
    [block  |-> [state |-> ApplyF(reader.state), n |-> Sha3Rate(name)],
     reader |-> [state |-> ApplyF(reader.state)]]

\* XofReaderCore::read_block: the first rate bytes of the state as it is, and
\* the permutation applied afterwards.  A block is named by the state it was
\* serialized from and its length.
ShakeReadBlock(name, reader) ==
    [block  |-> [state |-> reader.state, n |-> Sha3Rate(name)],
     reader |-> [state |-> ApplyF(reader.state)]]

\* ------------------------------------------------------------------------
\* BLAKE2b and BLAKE2s (blake2/src/macros.rs, blake2/src/lib.rs)
\* ------------------------------------------------------------------------

Blake2Names == {"Blake2bVar", "Blake2sVar"}

\* $bytes: U64 for BLAKE2b, U32 for BLAKE2s
Blake2Bytes(name) == IF name = "Blake2bVar" THEN 64 ELSE 32

\* $block_size
Blake2BlockSize(name) == IF name = "Blake2bVar" THEN 128 ELSE 64

\* limbs of $word: u64 for BLAKE2b, u32 for BLAKE2s
Blake2WordLimbs(name) == IF name = "Blake2bVar" THEN 4 ELSE 2

\* $IV (consts.rs)
Blake2IV(name) ==
    IF name = "Blake2bVar"
    THEN <<W64(\h6A09, \hE667, \hF3BC, \hC908), W64(\hBB67, \hAE85, \h84CA, \hA73B),
           W64(\h3C6E, \hF372, \hFE94, \hF82B), W64(\hA54F, \hF53A, \h5F1D, \h36F1),
           W64(\h510E, \h527F, \hADE6, \h82D1), W64(\h9B05, \h688C, \h2B3E, \h6C1F),
           W64(\h1F83, \hD9AB, \hFB41, \hBD6B), W64(\h5BE0, \hCD19, \h137E, \h2179)>>
    ELSE <<W32(\h6A09, \hE667), W32(\hBB67, \hAE85), W32(\h3C6E, \hF372),
           W32(\hA54F, \hF53A), W32(\h510E, \h527F), W32(\h9B05, \h688C),
           W32(\h1F83, \hD9AB), W32(\h5BE0, \hCD19)>>

\* a variant that puts the value at the end of the zeroed array
Blake2PaddedLeft(v, length) == CopyAt(Rep(0, length), length - Len(v), v)

\* a salt or persona shorter than `length`, copied into a zeroed array
Blake2Padded(v, length) == CopyAt(Rep(0, length), 0, v)

\* the two parameter words of a salt, its `if salt.len() < length` statement
Blake2SaltWords(salt, length) ==
    IF Len(salt) < length
    THEN LET padded_salt == Blake2Padded(salt, length)
         IN  <<WFromLeBytes(SubSeq(padded_salt, 1, length \div 2)),
               WFromLeBytes(SubSeq(padded_salt, length \div 2 + 1, Len(padded_salt)))>>
    ELSE <<WFromLeBytes(SubSeq(salt, 1, Len(salt) \div 2)),
           WFromLeBytes(SubSeq(salt, Len(salt) \div 2 + 1, Len(salt)))>>

\* the two parameter words of a persona, its `if persona.len() < length` statement
Blake2PersonaWords(persona, length) ==
    IF Len(persona) < length
    THEN LET padded_persona == Blake2Padded(persona, length)
         IN  <<WFromLeBytes(SubSeq(padded_persona, 1, length \div 2)),
               WFromLeBytes(SubSeq(padded_persona, length \div 2 + 1,
                                   Len(padded_persona)))>>
    ELSE <<WFromLeBytes(SubSeq(persona, 1, length \div 2)),
           WFromLeBytes(SubSeq(persona, length \div 2 + 1, Len(persona)))>>

\* the capacity of salt and persona: "the number of bytes needed to express
\* two words", $bytes / 4
Blake2ParamLength(name) == Blake2Bytes(name) \div 4

\* a variant without the assert on key_size
Blake2NewWithParamsAnyKey(name, salt, persona, key_size, output_size) ==
    LET wl     == Blake2WordLimbs(name)
        length == Blake2ParamLength(name)
        p0     == WNat(XorBits(XorBits(\h1010000, key_size * 256, 32), output_size, 32), wl)
        sw     == Blake2SaltWords(salt, length)
        pw     == Blake2PersonaWords(persona, length)
        z      == WNat(0, wl)
        p      == <<p0, z, z, z, sw[1], sw[2], pw[1], pw[2]>>
        iv     == Blake2IV(name)
    IN  IF ~(output_size <= Blake2Bytes(name))
           \/ ~(Len(salt) <= length) \/ ~(Len(persona) <= length)
        THEN [panicked |-> TRUE, core |-> <<>>]
        ELSE [panicked |-> FALSE,
              core |-> [h |-> Fresh([i \in 1..8 |-> WXor(iv[i], p[i])]),
                        t |-> WNat(0, 4)]]

\* new_with_params: the four asserts panic; otherwise the state is the IV
\* xored with the parameter block and t is 0
Blake2NewWithParams(name, salt, persona, key_size, output_size) ==
    LET wl     == Blake2WordLimbs(name)
        length == Blake2ParamLength(name)
        p0     == WNat(XorBits(XorBits(\h1010000, key_size * 256, 32), output_size, 32), wl)
        sw     == Blake2SaltWords(salt, length)
        pw     == Blake2PersonaWords(persona, length)
        z      == WNat(0, wl)
        p      == <<p0, z, z, z, sw[1], sw[2], pw[1], pw[2]>>
        iv     == Blake2IV(name)
    IN  IF ~(key_size <= Blake2Bytes(name)) \/ ~(output_size <= Blake2Bytes(name))
           \/ ~(Len(salt) <= length) \/ ~(Len(persona) <= length)
        THEN [panicked |-> TRUE, core |-> <<>>]
        ELSE [panicked |-> FALSE,
              core |-> [h |-> Fresh([i \in 1..8 |-> WXor(iv[i], p[i])]),
                        t |-> WNat(0, 4)]]

\* compress(block, f0, f1): the block is mixed into h together with the
\* counter words t0, t1 and the two flags
Blake2Compress(name, core, block, f0, f1) ==
    LET wl == Blake2WordLimbs(name)
        t0 == WCast(core.t, wl)
        t1 == IF Blake2Bytes(name) = 64 THEN WNat(0, wl)
              ELSE WCast(WShr32(core.t), wl)
    IN  [core EXCEPT !.h = Compress(@, <<[block |-> block, t0 |-> t0, t1 |-> t1,
                                          f0 |-> f0, f1 |-> f1]>>)]

RECURSIVE Blake2UpdateBlocks(_, _, _)
Blake2UpdateBlocks(name, core, blocks) ==
    IF blocks = <<>> THEN core
    ELSE LET wl == Blake2WordLimbs(name)
             c1 == [core EXCEPT !.t = WAdd(@, WNat(Len(Head(blocks)), 4))]
         IN  Blake2UpdateBlocks(name,
                 Blake2Compress(name, c1, Head(blocks), WNat(0, wl), WNat(0, wl)),
                 Tail(blocks))

\* finalize_with_flag: the last compression carries f0 = !0; the result is the
\* eight words of h, little-endian
Blake2FinalizeWithFlag(name, core, final_block, flag) ==
    LET wl == Blake2WordLimbs(name)
        c  == Blake2Compress(name, core, final_block, Rep(Limb - 1, wl), flag)
    IN  [core |-> c,
         res  |-> Flatten([j \in 1..8 |-> SymLe(j - 1, 2 * wl)])]

\* VariableOutputCore::new
\* a variant that also refuses the largest size
Blake2NewBelowMax(name, output_size) ==
    IF output_size >= Blake2Bytes(name)
    THEN [err |-> TRUE, panicked |-> FALSE, core |-> <<>>]
    ELSE LET r == Blake2NewWithParams(name, <<>>, <<>>, 0, output_size)
         IN  [err |-> FALSE, panicked |-> r.panicked, core |-> r.core]

\* VariableOutputCore::new
Blake2New(name, output_size) ==
    IF output_size > Blake2Bytes(name)
    THEN [err |-> TRUE, panicked |-> FALSE, core |-> <<>>]
    ELSE LET r == Blake2NewWithParams(name, <<>>, <<>>, 0, output_size)
         IN  [err |-> FALSE, panicked |-> r.panicked, core |-> r.core]

\* a variant that calls f with all of res
Blake2FinalizeVariableCoreFull(name, core, buffer, output_size) ==
    LET c1 == [core EXCEPT !.t = WAdd(@, WNat(GetPos(buffer), 4))]
        p  == PadZeros(buffer)
        r  == Blake2FinalizeWithFlag(name, c1, p.block, WNat(0, Blake2WordLimbs(name)))
    IN  [ok |-> TRUE, core |-> r.core, buf |-> p.buf,
         out |-> [state |-> r.core.h, bytes |-> r.res]]

\* VariableOutputCore::finalize_variable_core: f is called with res[..output_size]
Blake2FinalizeVariableCore(name, core, buffer, output_size) ==
    LET c1 == [core EXCEPT !.t = WAdd(@, WNat(GetPos(buffer), 4))]
        p  == PadZeros(buffer)
        r  == Blake2FinalizeWithFlag(name, c1, p.block, WNat(0, Blake2WordLimbs(name)))
    IN  IF output_size > Len(r.res)
        THEN [ok |-> FALSE, core |-> r.core, buf |-> p.buf, out |-> <<>>]
        ELSE [ok |-> TRUE, core |-> r.core, buf |-> p.buf,
              out |-> [state |-> r.core.h, bytes |-> Take(r.res, output_size)]]

\* ------------------------------------------------------------------------
\* Groestl, short and long variants (groestl/src/lib.rs)
\* ------------------------------------------------------------------------

GroestlNames == {"GroestlShortVar", "GroestlLongVar"}

\* compress512::COLS, compress1024::COLS
GroestlCols(name) == IF name = "GroestlShortVar" THEN 8 ELSE 16

\* ShortBlockSize, LongBlockSize
GroestlBlockSize(name) == IF name = "GroestlShortVar" THEN 64 ELSE 128

\* MaxOutputSize
GroestlMaxOutputSize(name) == IF name = "GroestlShortVar" THEN 32 ELSE 64

\* a variant whose initial state does not carry the output size
GroestlNewNoSize(name, output_size) ==
    IF output_size > GroestlMaxOutputSize(name)
    THEN [err |-> TRUE, panicked |-> FALSE, core |-> <<>>]
    ELSE [err |-> FALSE, panicked |-> FALSE,
          core |-> [state      |-> Fresh(Rep(WNat(0, 4), GroestlCols(name))),
                    blocks_len |-> WNat(0, 4)]]

\* VariableOutputCore::new
GroestlNew(name, output_size) ==
    IF output_size > GroestlMaxOutputSize(name)
    THEN [err |-> TRUE, panicked |-> FALSE, core |-> <<>>]
    ELSE LET cols  == GroestlCols(name)
             state == [i \in 1..cols |->
                          IF i = cols THEN WMul(WNat(output_size, 4), 8)
                          ELSE WNat(0, 4)]
         IN  [err |-> FALSE, panicked |-> FALSE,
              core |-> [state |-> Fresh(state), blocks_len |-> WNat(0, 4)]]

GroestlUpdateBlocks(name, core, blocks) ==
    [state      |-> Compress(core.state, blocks),
     blocks_len |-> WAdd(core.blocks_len, WNat(Len(blocks), 4))]

\* a variant that calls f with the head of buf
GroestlFinalizeVariableCoreHead(name, core, buffer, output_size) ==
    LET blocks_len == IF Remaining(buffer) <= 8
                      THEN WAdd(core.blocks_len, WNat(2, 4))
                      ELSE WAdd(core.blocks_len, WNat(1, 4))
        p     == Len64PaddingBe(buffer, blocks_len)
        st    == Compress(core.state, p.blocks)
        cols  == GroestlCols(name)
        n     == cols \div 2
        max   == GroestlMaxOutputSize(name)
        buf   == ChunksExactZip(max, 8, [j \in 1..(cols - n) |-> n + j - 1], "be")
    IN  IF ~p.ok
        THEN [ok |-> FALSE, core |-> core, buf |-> p.buf, out |-> <<>>]
        ELSE IF output_size > Len(buf)
        THEN [ok |-> FALSE, core |-> [core EXCEPT !.state = st], buf |-> p.buf,
              out |-> <<>>]
        ELSE [ok |-> TRUE, core |-> [core EXCEPT !.state = st], buf |-> p.buf,
              out |-> [state |-> st, perm |-> "p",
                       bytes |-> Take(buf, output_size)]]

\* a variant that adds two only when fewer than 8 bytes remain
GroestlFinalizeVariableCoreStrict(name, core, buffer, output_size) ==
    LET blocks_len == IF Remaining(buffer) < 8
                      THEN WAdd(core.blocks_len, WNat(2, 4))
                      ELSE WAdd(core.blocks_len, WNat(1, 4))
        p     == Len64PaddingBe(buffer, blocks_len)
        st    == Compress(core.state, p.blocks)
        cols  == GroestlCols(name)
        n     == cols \div 2
        max   == GroestlMaxOutputSize(name)
        buf   == ChunksExactZip(max, 8, [j \in 1..(cols - n) |-> n + j - 1], "be")
    IN  IF ~p.ok
        THEN [ok |-> FALSE, core |-> core, buf |-> p.buf, out |-> <<>>]
        ELSE IF output_size > Len(buf)
        THEN [ok |-> FALSE, core |-> [core EXCEPT !.state = st], buf |-> p.buf,
              out |-> <<>>]
        ELSE [ok |-> TRUE, core |-> [core EXCEPT !.state = st], buf |-> p.buf,
              out |-> [state |-> st, perm |-> "p",
                       bytes |-> Drop(buf, Len(buf) - output_size)]]

\* VariableOutputCore::finalize_variable_core: res = p(state); the second half
\* of its columns, big-endian, fills buf; f is called with the tail of buf
\* (the padding is compressed into the state before the slice is taken, so
\* a panic on an output_size past buf leaves the state with the padding in)
GroestlFinalizeVariableCore(name, core, buffer, output_size) ==
    LET blocks_len == IF Remaining(buffer) <= 8
                      THEN WAdd(core.blocks_len, WNat(2, 4))
                      ELSE WAdd(core.blocks_len, WNat(1, 4))
        p     == Len64PaddingBe(buffer, blocks_len)
        st    == Compress(core.state, p.blocks)
        cols  == GroestlCols(name)
        n     == cols \div 2
        max   == GroestlMaxOutputSize(name)
        buf   == ChunksExactZip(max, 8, [j \in 1..(cols - n) |-> n + j - 1], "be")
    IN  IF ~p.ok
        THEN [ok |-> FALSE, core |-> core, buf |-> p.buf, out |-> <<>>]
        ELSE IF output_size > Len(buf)
        THEN [ok |-> FALSE, core |-> [core EXCEPT !.state = st], buf |-> p.buf,
              out |-> <<>>]
        ELSE [ok |-> TRUE, core |-> [core EXCEPT !.state = st], buf |-> p.buf,
              out |-> [state |-> st, perm |-> "p",
                       bytes |-> Drop(buf, Len(buf) - output_size)]]

\* ------------------------------------------------------------------------
\* Shabal (shabal/src/state.rs, shabal/src/lib.rs).  The arrays a, b, c are
\* one uninterpreted value: the initial arrays and the operations applied to
\* them, each with its operands; the counter words are kept as numbers.
\* ------------------------------------------------------------------------

ShabalNames == {"Shabal192", "Shabal224", "Shabal256", "Shabal384", "Shabal512"}

\* $out_size
ShabalOutSize(name) ==
    CASE name = "Shabal192" -> 24
      [] name = "Shabal224" -> 28
      [] name = "Shabal256" -> 32
      [] name = "Shabal384" -> 48
      [] name = "Shabal512" -> 64

\* EngineState::new
EngineStateNew(init) ==
    [abc |-> Fresh(init), whigh |-> WNat(0, 2), wlow |-> WNat(1, 2)]

ShabalOp(state, op, m, w) ==
    [state EXCEPT !.abc = Compress(@, <<[op |-> op, m |-> m, w |-> w]>>)]

\* read_m
ReadM(input) == [i \in 1..16 |-> WFromLeBytes(SubSeq(input, 4 * i - 3, 4 * i))]

AddM(state, m) == ShabalOp(state, "add_m", m, <<>>)

SubM(state, m) == ShabalOp(state, "sub_m", m, <<>>)

Perm(state, m) == ShabalOp(state, "perm", m, <<>>)

SwapBC(state) == ShabalOp(state, "swap_b_c", <<>>, <<>>)

\* xor_w: a[0] ^= wlow; a[1] ^= whigh
XorW(state) == ShabalOp(state, "xor_w", <<>>, <<state.wlow, state.whigh>>)

\* a variant of inc_w without the carry into whigh
IncWLowOnly(state) == [state EXCEPT !.wlow = WAdd(@, WNat(1, 2))]

\* inc_w
IncW(state) ==
    LET wlow == WAdd(state.wlow, WNat(1, 2))
    IN  [state EXCEPT !.wlow = wlow,
                      !.whigh = IF wlow = WNat(0, 2) THEN WAdd(@, WNat(1, 2)) ELSE @]

\* state::compress
ShabalCompress(state, input) ==
    LET m == ReadM(input)
    IN  IncW(SwapBC(SubM(Perm(XorW(AddM(state, m)), m), m)))

\* a variant that repeats the permutation twice
ShabalCompressFinalTwice(state, input) ==
    LET m  == ReadM(input)
        s0 == Perm(XorW(AddM(state, m)), m)
        s1 == Perm(XorW(SwapBC(s0)), m)
    IN  Perm(XorW(SwapBC(s1)), m)

\* state::compress_final
ShabalCompressFinal(state, input) ==
    LET m  == ReadM(input)
        s0 == Perm(XorW(AddM(state, m)), m)
        s1 == Perm(XorW(SwapBC(s0)), m)
        s2 == Perm(XorW(SwapBC(s1)), m)
    IN  Perm(XorW(SwapBC(s2)), m)

ShabalDefault(name) == [state |-> EngineStateNew(<<"INIT", name>>)]

RECURSIVE ShabalUpdateBlocks(_, _)
ShabalUpdateBlocks(core, blocks) ==
    IF blocks = <<>> THEN core
    ELSE ShabalUpdateBlocks([state |-> ShabalCompress(core.state, Head(blocks))],
                            Tail(blocks))

\* finalize_fixed_core: the last OutputSize / 4 words of b, little-endian
ShabalFinalizeFixedCore(name, core, buffer) ==
    LET p  == PadWith(buffer, Iso7816Pad(buffer.buffer, buffer.pos))
        st == ShabalCompressFinal(core.state, p.block)
        n  == 16 - ShabalOutSize(name) \div 4
        b  == [j \in 1..(16 - n) |-> n + j - 1]
    IN  IF ~p.ok THEN [ok |-> FALSE, core |-> core, buf |-> p.buf, out |-> <<>>]
        ELSE [ok |-> TRUE, core |-> [state |-> st], buf |-> p.buf,
              out |-> [state |-> st.abc, array |-> "b",
                       bytes |-> ChunksExactZip(ShabalOutSize(name), 4, b, "le")]]

\* ------------------------------------------------------------------------
\* Streebog (streebog/src/streebog.rs, streebog256.rs, streebog512.rs)
\* ------------------------------------------------------------------------

StreebogNames == {"Streebog256", "Streebog512"}

\* to_bytes: eight u64 as 64 bytes, each little-endian
ToBytes(b) == Flatten([i \in 1..8 |-> WToLeBytes(b[i])])

\* from_bytes
FromBytes(b) == [i \in 1..8 |-> WFromLeBytes(SubSeq(b, 8 * i - 7, 8 * i))]

\* a variant of adc that drops the carry
AdcNoCarry(a, b, carry) ==
    LET ret == WAdd(WAdd(WCast(a, 8), WCast(b, 8)), WCast(carry, 8))
    IN  [a |-> WCast(ret, 4), carry |-> WNat(0, 4)]

\* adc: ret = a + b + carry in u128; a = ret as u64; carry = ret >> 64
Adc(a, b, carry) ==
    LET ret == WAdd(WAdd(WCast(a, 8), WCast(b, 8)), WCast(carry, 8))
    IN  [a |-> WCast(ret, 4), carry |-> SubSeq(ret, 5, 8)]

RECURSIVE AdcChain(_, _, _, _)
\* adc over the limbs i..8 of x and t, the carry passed along
AdcChain(x, t, carry, i) ==
    IF i > 8 THEN x
    ELSE LET r == Adc(x[i], t[i], carry)
         IN  AdcChain([x EXCEPT ![i] = r.a], t, r.carry, i + 1)

\* StreebogState::g: h is compressed with the key material n and the block m
G(state, n, m) == [state EXCEPT !.h = Compress(@, <<[n |-> n, m |-> m]>>)]

\* StreebogState::update_sigma
UpdateSigma(state, m) ==
    [state EXCEPT !.sigma = AdcChain(@, FromBytes(m), WNat(0, 4), 1)]

\* StreebogState::update_n
UpdateN(state, len) ==
    [state EXCEPT !.n = AdcChain(@, [i \in 1..8 |->
                                        IF i = 1 THEN WMul(len, 8) ELSE WNat(0, 4)],
                                 WNat(0, 4), 1)]

\* StreebogState::compress
StreebogCompress(state, block, msg_len) ==
    UpdateSigma(UpdateN(G(state, ToBytes(state.n), block), msg_len), block)

RECURSIVE StreebogStateUpdateBlocks(_, _)
\* StreebogState::update_blocks, with BLOCK_SIZE = 64
StreebogStateUpdateBlocks(state, blocks) ==
    IF blocks = <<>> THEN state
    ELSE StreebogStateUpdateBlocks(
             StreebogCompress(state, Head(blocks), WNat(64, 4)), Tail(blocks))

RECURSIVE StreebogCompressAll(_, _, _)
StreebogCompressAll(state, blocks, msg_len) ==
    IF blocks = <<>> THEN state
    ELSE StreebogCompressAll(StreebogCompress(state, Head(blocks), msg_len),
                             Tail(blocks), msg_len)

\* finalize: self.g(&[0u8; 64], &to_bytes(&self.n))
GOverN(state) == G(state, Rep(0, 64), ToBytes(state.n))

\* finalize: self.g(&[0u8; 64], &to_bytes(&self.sigma))
GOverSigma(state) == G(state, Rep(0, 64), ToBytes(state.sigma))

\* a variant that transforms over sigma before n
StreebogStateFinalizeSigmaFirst(state, buffer) ==
    LET p == DigestPad(buffer, 1, <<>>)
    IN  [ok    |-> p.ok,
         state |-> GOverN(GOverSigma(
                       StreebogCompressAll(state, p.blocks, WNat(GetPos(buffer), 4)))),
         buf   |-> p.buf]

\* a variant that pads with 0x80
StreebogStateFinalizeHighBit(state, buffer) ==
    LET p == DigestPad(buffer, 128, <<>>)
    IN  [ok    |-> p.ok,
         state |-> GOverSigma(GOverN(
                       StreebogCompressAll(state, p.blocks, WNat(GetPos(buffer), 4)))),
         buf   |-> p.buf]

\* StreebogState::finalize
StreebogStateFinalize(state, buffer) ==
    LET p == DigestPad(buffer, 1, <<>>)
    IN  [ok    |-> p.ok,
         state |-> GOverSigma(GOverN(
                       StreebogCompressAll(state, p.blocks, WNat(GetPos(buffer), 4)))),
         buf   |-> p.buf]

StreebogDefault(name) ==
    [state |-> [h     |-> Fresh(Rep(IF name = "Streebog256" THEN 1 ELSE 0, 64)),
                n     |-> Rep(WNat(0, 4), 8),
                sigma |-> Rep(WNat(0, 4), 8)]]

StreebogUpdateBlocks(core, blocks) ==
    [state |-> StreebogStateUpdateBlocks(core.state, blocks)]

\* finalize_fixed_core: h[32..] for Streebog256, h for Streebog512
StreebogFinalizeFixedCore(name, core, buffer) ==
    LET r     == StreebogStateFinalize(core.state, buffer)
        bytes == [k \in 1..64 |-> [w |-> k - 1, b |-> 0]]
    IN  [ok |-> r.ok, core |-> [state |-> r.state], buf |-> r.buf,
         out |-> [state |-> r.state.h,
                  bytes |-> IF name = "Streebog256" THEN Drop(bytes, 32) ELSE bytes]]

\* ------------------------------------------------------------------------
\* The hashers: which core, which buffer, which capabilities
\* ------------------------------------------------------------------------

\* hashers with a fixed-size digest (FixedOutputCore)
FixedNames == {"Md2", "Md5", "Sha1", "Sm3", "Tiger", "Tiger2"} \cup Sha2Names
              \cup RipemdNames \cup Sha3FixedNames \cup ShabalNames
              \cup StreebogNames

\* hashers with a runtime-selected digest size (VariableOutputCore)
VarNames == Blake2Names \cup GroestlNames

\* extendable-output hashers (ExtendableOutputCore)
XofNames == ShakeNames

AllNames == FixedNames \cup VarNames \cup XofNames

\* the cores with `impl Reset`
ResetNames == (FixedNames \ RipemdNames) \cup XofNames

\* BlockUser::BlockSize
BlockSize(alg) ==
    CASE alg = "Md2" -> 16
      [] alg \in {"Md5", "Sha1", "Sm3", "Tiger", "Tiger2"} -> 64
      [] alg \in Sha2Names -> Sha2BlockSize(alg)
      [] alg \in RipemdNames -> 64
      [] alg \in Sha3FixedNames \cup ShakeNames -> Sha3Rate(alg)
      [] alg \in Blake2Names -> Blake2BlockSize(alg)
      [] alg \in GroestlNames -> GroestlBlockSize(alg)
      [] alg \in ShabalNames -> 64
      [] alg \in StreebogNames -> 64

\* a variant in which every core names the lazy buffer
LazyEverywhere(alg) == alg \in AllNames

\* BufferUser::Buffer is LazyBlockBuffer (BLAKE2) rather than BlockBuffer
Lazy(alg) == alg \in Blake2Names

\* VariableOutputCore::MaxOutputSize
MaxOutputSize(alg) ==
    IF alg \in Blake2Names THEN Blake2Bytes(alg) ELSE GroestlMaxOutputSize(alg)

\* Default::default() of a core
Default(alg) ==
    CASE alg = "Md2" -> Md2Default
      [] alg = "Md5" -> Md5Default
      [] alg = "Sha1" -> Sha1Default
      [] alg = "Sm3" -> Sm3Default
      [] alg = "Tiger" -> TigerDefault
      [] alg = "Tiger2" -> Tiger2Default
      [] alg \in Sha2Names -> Sha2Default(alg)
      [] alg \in RipemdNames -> RipemdDefault(alg)
      [] alg \in Sha3FixedNames \cup ShakeNames -> Sha3Default(alg)
      [] alg \in ShabalNames -> ShabalDefault(alg)
      [] alg \in StreebogNames -> StreebogDefault(alg)

\* a variant of reset that leaves the core as it is
ResetKeeps(alg, core) == core

\* Reset::reset of a core: *self = Default::default()
Reset(alg, core) == Default(alg)

\* VariableOutputCore::new
VarNew(alg, output_size) ==
    IF alg \in Blake2Names THEN Blake2New(alg, output_size)
    ELSE GroestlNew(alg, output_size)

\* UpdateCore::update_blocks
UpdateBlocks(alg, core, blocks) ==
    CASE alg = "Md2" -> Md2UpdateBlocks(core, blocks)
      [] alg = "Md5" -> Md5UpdateBlocks(core, blocks)
      [] alg = "Sha1" -> Sha1UpdateBlocks(core, blocks)
      [] alg = "Sm3" -> Sm3UpdateBlocks(core, blocks)
      [] alg = "Tiger" -> TigerUpdateBlocks(core, blocks)
      [] alg = "Tiger2" -> Tiger2UpdateBlocks(core, blocks)
      [] alg \in Sha2Names -> Sha2UpdateBlocks(alg, core, blocks)
      [] alg \in RipemdNames -> RipemdUpdateBlocks(alg, core, blocks)
      [] alg \in Sha3FixedNames \cup ShakeNames -> Sha3UpdateBlocks(alg, core, blocks)
      [] alg \in Blake2Names -> Blake2UpdateBlocks(alg, core, blocks)
      [] alg \in GroestlNames -> GroestlUpdateBlocks(alg, core, blocks)
      [] alg \in ShabalNames -> ShabalUpdateBlocks(core, blocks)
      [] alg \in StreebogNames -> StreebogUpdateBlocks(core, blocks)

\* FixedOutputCore::finalize_fixed_core
FinalizeFixedCore(alg, core, buffer) ==
    CASE alg = "Md2" -> Md2FinalizeFixedCore(core, buffer)
      [] alg = "Md5" -> Md5FinalizeFixedCore(core, buffer)
      [] alg = "Sha1" -> Sha1FinalizeFixedCore(core, buffer)
      [] alg = "Sm3" -> Sm3FinalizeFixedCore(core, buffer)
      [] alg = "Tiger" -> TigerFinalizeFixedCore(core, buffer)
      [] alg = "Tiger2" -> Tiger2FinalizeFixedCore(core, buffer)
      [] alg \in Sha2Names -> Sha2FinalizeFixedCore(alg, core, buffer)
      [] alg \in RipemdNames -> RipemdFinalizeFixedCore(alg, core, buffer)
      [] alg \in Sha3FixedNames -> Sha3FinalizeFixedCore(alg, core, buffer)
      [] alg \in ShabalNames -> ShabalFinalizeFixedCore(alg, core, buffer)
      [] alg \in StreebogNames -> StreebogFinalizeFixedCore(alg, core, buffer)

\* VariableOutputCore::finalize_variable_core
FinalizeVariableCore(alg, core, buffer, output_size) ==
    IF alg \in Blake2Names
    THEN Blake2FinalizeVariableCore(alg, core, buffer, output_size)
    ELSE GroestlFinalizeVariableCore(alg, core, buffer, output_size)

\* the name of the core type of a hasher: $name of the macro instances,
\* the struct name elsewhere
CoreName(alg) == alg \o "Core"

\* a variant that renders the fields, as a derived Debug would
DebugFmtDerived(alg, core) == CoreName(alg) \o " " \o ToString(core)

\* fmt::Debug::fmt of a core: f.write_str of a string literal, or of
\* concat!(stringify!($name), " { ... }") in the macros; self is not read
DebugFmt(alg, core) ==
    CASE alg = "Md2" -> "Md2Core { ... }"
      [] alg = "Md5" -> "Md5Core { ... }"
      [] alg = "Sha1" -> "Sha1Core { ... }"
      [] alg = "Sm3" -> "Sm3Core { ... }"
      [] alg = "Tiger" -> "TigerCore { ... }"
      [] alg = "Tiger2" -> "Tiger2Core { ... }"
      [] alg = "Ripemd160" -> "Ripemd160Core { ... }"
      [] alg = "Ripemd320" -> "Ripemd320Core { ... }"
      [] alg = "GroestlShortVar" -> "GroestlShortVarCore { ... }"
      [] alg = "GroestlLongVar" -> "GroestlLongVarCore { ... }"
      [] alg = "Streebog256" -> "Streebog256Core { ... }"
      [] alg = "Streebog512" -> "Streebog512Core { ... }"
      [] alg \in Sha2Names \cup Sha3FixedNames \cup ShakeNames \cup Blake2Names
                  \cup ShabalNames -> CoreName(alg) \o " { ... }"

\* ------------------------------------------------------------------------
\* The length counters.  MD5 counts with wrapping_add and wrapping_mul,
\* Shabal with wrapping_add, Streebog with a carry chain; the other cores
\* count with `+=`, `+` and `*`, which wrap in a build without overflow
\* checks and panic ("attempt to add with overflow") in a build with them.
\* ------------------------------------------------------------------------

\* the cores that write a bit length behind the padding
BitLenNames == {"Md5", "Sha1", "Sm3", "Tiger", "Tiger2"} \cup Sha2Names
               \cup RipemdNames

\* the cores that keep a count of what they have absorbed
CounterNames == BitLenNames \cup Blake2Names \cup GroestlNames \cup ShabalNames
                \cup StreebogNames

\* the cores whose counter arithmetic is `+=`, `+`, `*`
PlainArithmeticNames == CounterNames \ ({"Md5"} \cup ShabalNames \cup StreebogNames)

\* width of the counter in limbs: u64; $dword = u128 for the SHA-512 family;
\* eight u64 for Streebog
CounterLimbs(alg) ==
    IF alg \in Sha2Names THEN Sha2DwordLimbs(alg)
    ELSE IF alg \in StreebogNames THEN 32
    ELSE 4

\* the counter field of a core: block_len, blocks_len, t, (wlow, whigh), n
Counter(alg, core) ==
    CASE alg \in BitLenNames -> core.block_len
      [] alg \in GroestlNames -> core.blocks_len
      [] alg \in Blake2Names -> core.t
      [] alg \in ShabalNames -> core.state.wlow \o core.state.whigh
      [] alg \in StreebogNames -> Flatten(core.state.n)

\* `8 * (pos + bs * block_len)` leaves the width at one of its three steps
PlainBitLenOverflows(block_len, bs, pos) ==
    LET w == Len(block_len)
        m == WMul(block_len, bs)
    IN  \/ WMulOverflows(block_len, bs)
        \/ WAddOverflows(WNat(pos, w), m)
        \/ WMulOverflows(WAdd(WNat(pos, w), m), 8)

\* update_blocks: `self.block_len += blocks.len()` (`self.t += block.len()`
\* per block for BLAKE2) leaves the width
UpdateBlocksOverflows(alg, core, blocks) ==
    IF alg \in Blake2Names
    THEN WAddOverflows(core.t, WNat(Blake2BlockSize(alg) * Len(blocks), 4))
    ELSE IF alg \in PlainArithmeticNames
    THEN WAddOverflows(Counter(alg, core), WNat(Len(blocks), CounterLimbs(alg)))
    ELSE FALSE

\* finalize_*_core: the bit length, `self.blocks_len + 2` / `+ 1` (Groestl) or
\* `self.t += buffer.get_pos()` (BLAKE2) leaves the width
FinalizeOverflows(alg, core, buffer) ==
    IF alg \in Blake2Names
    THEN WAddOverflows(core.t, WNat(GetPos(buffer), 4))
    ELSE IF alg \in GroestlNames
    THEN WAddOverflows(core.blocks_len,
                       WNat(IF Remaining(buffer) <= 8 THEN 2 ELSE 1, 4))
    ELSE IF alg \in PlainArithmeticNames
    THEN PlainBitLenOverflows(core.block_len, BlockSize(alg), GetPos(buffer))
    ELSE FALSE

\* ------------------------------------------------------------------------
\* The streaming wrappers (digest::core_api): CoreWrapper, UpdateCoreWrapper,
\* RtVariableCoreWrapper.  A hasher is [core, buffer, output_size]; the
\* output size is 0 and unused unless the hasher is a variable-output one.
\* ------------------------------------------------------------------------

RECURSIVE FoldCalls(_, _, _)
\* the closure |blocks| core.update_blocks(blocks), called once per slice
FoldCalls(alg, core, calls) ==
    IF calls = <<>> THEN core
    ELSE FoldCalls(alg, UpdateBlocks(alg, core, Head(calls)), Tail(calls))

\* CoreWrapper::default()
WrapperDefault(alg) ==
    [core |-> Default(alg), buffer |-> BufferDefault(BlockSize(alg)), output_size |-> 0]

\* RtVariableCoreWrapper::new(output_size)
WrapperNew(alg, output_size) ==
    LET r == VarNew(alg, output_size)
    IN  [err |-> r.err, panicked |-> r.panicked,
         hasher |-> [core |-> r.core, buffer |-> BufferDefault(BlockSize(alg)),
                     output_size |-> output_size]]

\* Update::update(input)
WrapperUpdate(alg, h, input) ==
    LET d == IF Lazy(alg) THEN LazyDigestBlocks(h.buffer, input)
             ELSE DigestBlocks(h.buffer, input)
    IN  [h EXCEPT !.core = FoldCalls(alg, h.core, d.calls), !.buffer = d.buf]

\* Reset::reset() of the wrapper: the core and the buffer
WrapperReset(alg, h) ==
    [h EXCEPT !.core = Reset(alg, h.core), !.buffer = BufferReset(h.buffer)]

\* FixedOutput::finalize_into / VariableOutput::finalize_variable /
\* ExtendableOutput::finalize_xof on the wrapper's core and buffer
WrapperFinalize(alg, h) ==
    IF alg \in FixedNames
    THEN LET r == FinalizeFixedCore(alg, h.core, h.buffer)
         IN  [ok |-> r.ok, out |-> r.out,
              hasher |-> [h EXCEPT !.core = r.core, !.buffer = r.buf]]
    ELSE IF alg \in VarNames
    THEN LET r == FinalizeVariableCore(alg, h.core, h.buffer, h.output_size)
         IN  [ok |-> r.ok, out |-> r.out,
              hasher |-> [h EXCEPT !.core = r.core, !.buffer = r.buf]]
    ELSE LET r == ShakeFinalizeXofCore(alg, h.core, h.buffer)
         IN  [ok |-> r.ok, out |-> r.reader,
              hasher |-> [h EXCEPT !.core = r.core, !.buffer = r.buf]]

RECURSIVE CallsOverflow(_, _, _)
\* some update_blocks call of an update leaves the width of the counter
CallsOverflow(alg, core, calls) ==
    IF calls = <<>> THEN FALSE
    ELSE \/ UpdateBlocksOverflows(alg, core, Head(calls))
         \/ CallsOverflow(alg, UpdateBlocks(alg, core, Head(calls)), Tail(calls))

\* how update(input) can end: it returns, or, where its counter arithmetic
\* leaves the width, it returns (wrapped) or panics, as the build decides
UpdateOutcomes(alg, h, input) ==
    LET d == IF Lazy(alg) THEN LazyDigestBlocks(h.buffer, input)
             ELSE DigestBlocks(h.buffer, input)
    IN  IF CallsOverflow(alg, h.core, d.calls) THEN {"returns", "panics"}
        ELSE {"returns"}

\* how finalize can end
FinalizeOutcomes(alg, h) ==
    IF ~WrapperFinalize(alg, h).ok THEN {"panics"}
    ELSE IF FinalizeOverflows(alg, h.core, h.buffer) THEN {"returns", "panics"}
    ELSE {"returns"}

\* ------------------------------------------------------------------------
\* The state machine: one hasher, driven through its public operations
\* ------------------------------------------------------------------------

VARIABLES
    alg,      \* which hasher this run is about
    req,      \* the arguments its constructor is called with
    lens,     \* the lengths of input the caller may pass to one update
    pc,       \* "start", "ready", "done", "err" (constructor returned Err), "panic"
    hasher,   \* the hasher: [core, buffer, output_size]
    start,    \* history: how many bytes had been passed in at the last reset
    fed,      \* history: how many bytes the caller has passed in altogether
    nupd,     \* history: number of update calls made
    nreset,   \* history: number of resets made
    out,      \* what the last finalization produced
    last,     \* the operation performed last
    readers,  \* the XOF readers obtained so far, each with its history
    rlens,    \* the lengths the caller may ask a reader for in one read
    nread     \* history: number of read calls made

vars == <<alg, req, lens, pc, hasher, start, fed, nupd, nreset, out, last,
          readers, rlens, nread>>

\* the most resets (reset or finalize_reset) in one run
MaxResets == 1

\* the j-th byte the caller feeds (0-based), whatever the chunking
InputByte(j) == (j * 7 + 3) % 251

\* the k bytes following the first `from` ones
Input(from, k) == [i \in 1..k |-> InputByte(from + i - 1)]

\* history: the bytes absorbed since construction or the last reset
msg == Input(start, fed - start)

\* input lengths around the block size
ChunkLens(a) ==
    LET bs == BlockSize(a) IN {0, 1, bs - 1, 2 * bs}

\* the constructor arguments of a hasher that takes none
NoReq == [mode |-> "default", output_size |-> 0, salt |-> <<>>, persona |-> <<>>,
          key_size |-> 0, blocks |-> <<>>]

\* a call of new(output_size)
SizeReq(n) == [NoReq EXCEPT !.mode = "new", !.output_size = n]

\* nothing produced yet
NoOut == [state |-> <<>>, bytes |-> <<>>]

\* a call of new_with_params(salt, persona, key_size, output_size)
ParamReq(salt, persona, key_size, output_size) ==
    [mode |-> "params", output_size |-> output_size, salt |-> salt,
     persona |-> persona, key_size |-> key_size, blocks |-> <<>>]

\* a hasher that was constructed (with new(output_size) where it takes a
\* size) and has since absorbed k blocks of zero bytes, k a wide integer
ResumeReq(n, k) == [NoReq EXCEPT !.mode = "resumed", !.output_size = n, !.blocks = k]

\* width of the integers that count absorbed blocks without wrapping
WideLimbs == 36

\* the compression state after k further blocks of zero bytes, kept as one input
ZeroBlocks(st, k) == Compress(st, <<[zeros |-> k]>>)

\* the core after update_blocks over k blocks of zero bytes, none of whose
\* additions left the width of the counter
CoreAfterZeroBlocks(a, c, k) ==
    CASE a \in {"Md5", "Tiger", "Tiger2"} \cup Sha2Names ->
             [c EXCEPT !.state = ZeroBlocks(@, k),
                       !.block_len = WCast(k, CounterLimbs(a))]
      [] a \in {"Sha1", "Sm3"} \cup RipemdNames ->
             [c EXCEPT !.h = ZeroBlocks(@, k), !.block_len = WCast(k, 4)]
      [] a \in GroestlNames ->
             [c EXCEPT !.state = ZeroBlocks(@, k), !.blocks_len = WCast(k, 4)]
      [] a \in Blake2Names ->
             [c EXCEPT !.h = ZeroBlocks(@, k),
                       !.t = WCast(WMul(k, Blake2BlockSize(a)), 4)]
      [] a \in ShabalNames ->
             LET w == WAdd(WCast(k, 4), WNat(1, 4))
             IN  [state |-> [abc   |-> ZeroBlocks(c.state.abc, k),
                             wlow  |-> SubSeq(w, 1, 2),
                             whigh |-> SubSeq(w, 3, 4)]]
      [] a \in StreebogNames ->
             LET n == WCast(WMul(k, 512), 32)
             IN  [state |-> [h     |-> ZeroBlocks(c.state.h, k),
                             n     |-> [i \in 1..8 |-> SubSeq(n, 4 * i - 3, 4 * i)],
                             sigma |-> c.state.sigma]]

\* the hasher after k blocks of zero bytes; the lazy buffer has compressed
\* them all but the last, which it still holds
AfterZeroBlocks(a, h, k) ==
    IF k = WNat(0, Len(k)) THEN h
    ELSE IF Lazy(a)
    THEN [h EXCEPT !.core = CoreAfterZeroBlocks(a, h.core, WSubSmall(k, 1)),
                   !.buffer = [buffer |-> Rep(0, BlockSize(a)), pos |-> BlockSize(a)]]
    ELSE [h EXCEPT !.core = CoreAfterZeroBlocks(a, h.core, k)]

\* the constructor call: Default::default(), new(output_size), or
\* new_with_params, whose core is used with a buffer of the caller's
Construct(a, r) ==
    IF r.mode = "params"
    THEN LET c == Blake2NewWithParams(a, r.salt, r.persona, r.key_size, r.output_size)
         IN  [err |-> FALSE, panicked |-> c.panicked,
              hasher |-> [core |-> c.core, buffer |-> BufferDefault(BlockSize(a)),
                          output_size |-> r.output_size]]
    ELSE LET c == IF a \in VarNames THEN WrapperNew(a, r.output_size)
                  ELSE [err |-> FALSE, panicked |-> FALSE, hasher |-> WrapperDefault(a)]
         IN  IF r.mode = "resumed"
             THEN [c EXCEPT !.hasher = AfterZeroBlocks(a, @, r.blocks)]
             ELSE c

\* the hasher before construction
NoHasher == [core |-> <<>>, buffer |-> BufferDefault(1), output_size |-> 0]

InitCommon ==
    /\ pc = "start"
    /\ hasher = NoHasher
    /\ start = 0
    /\ fed = 0
    /\ nupd = 0
    /\ nreset = 0
    /\ out = NoOut
    /\ last = "none"
    /\ readers = <<>>
    /\ nread = 0

\* every hasher; the variable-output ones at their largest and at a short size
Init ==
    /\ alg \in AllNames
    /\ req \in IF alg \in VarNames
               THEN {SizeReq(10), SizeReq(MaxOutputSize(alg))}
               ELSE {NoReq}
    /\ lens = ChunkLens(alg)
    /\ rlens = {}
    /\ InitCommon

New ==
    /\ pc = "start"
    /\ LET r == Construct(alg, req)
       IN  /\ pc' = IF r.err THEN "err" ELSE IF r.panicked THEN "panic" ELSE "ready"
           /\ hasher' = IF r.err \/ r.panicked THEN NoHasher ELSE r.hasher
    /\ last' = "new"
    /\ UNCHANGED <<alg, req, lens, start, fed, nupd, nreset, out, readers, rlens, nread>>

Update ==
    /\ pc = "ready"
    /\ nupd < MaxUpdates
    /\ \E k \in lens :
         LET input == Input(fed, k)
         IN  /\ \E o \in UpdateOutcomes(alg, hasher, input) :
                   /\ pc' = IF o = "panics" THEN "panic" ELSE pc
                   /\ hasher' = IF o = "panics" THEN hasher
                                ELSE WrapperUpdate(alg, hasher, input)
             /\ fed' = fed + k
    /\ nupd' = nupd + 1
    /\ last' = "update"
    /\ UNCHANGED <<alg, req, lens, start, nreset, out, readers, rlens, nread>>

ResetOp ==
    /\ pc = "ready"
    /\ alg \in ResetNames
    /\ nreset < MaxResets
    /\ hasher' = WrapperReset(alg, hasher)
    /\ start' = fed
    /\ nreset' = nreset + 1
    /\ last' = "reset"
    /\ UNCHANGED <<alg, req, lens, pc, fed, nupd, out, readers, rlens, nread>>

Finalize ==
    /\ pc = "ready"
    /\ LET r == WrapperFinalize(alg, hasher)
       IN  \E o \in FinalizeOutcomes(alg, hasher) :
               /\ pc' = IF o = "panics" THEN "panic" ELSE "done"
               /\ hasher' = r.hasher
               /\ out' = IF o = "panics" THEN NoOut ELSE r.out
    /\ last' = "finalize"
    /\ UNCHANGED <<alg, req, lens, start, fed, nupd, nreset, readers, rlens, nread>>

\* finalize_fixed_reset / finalize_xof_reset: finalize, then reset
FinalizeReset ==
    /\ pc = "ready"
    /\ alg \in ResetNames
    /\ nreset < MaxResets
    /\ LET r == WrapperFinalize(alg, hasher)
       IN  \E o \in FinalizeOutcomes(alg, hasher) :
               /\ pc' = IF o = "panics" THEN "panic" ELSE "ready"
               /\ hasher' = WrapperReset(alg, r.hasher)
               /\ out' = IF o = "panics" THEN NoOut ELSE r.out
    /\ start' = fed
    /\ nreset' = nreset + 1
    /\ last' = "finalize_reset"
    /\ UNCHANGED <<alg, req, lens, fed, nupd, readers, rlens, nread>>

Next == New \/ Update \/ ResetOp \/ Finalize \/ FinalizeReset

Spec == Init /\ [][Next]_vars

\* the digest of the message m computed in one update on a new hasher
OneShot(a, r, m) == WrapperFinalize(a, WrapperUpdate(a, Construct(a, r).hasher, m))

\* C1: the digest depends on the bytes absorbed and not on how they were
\* split over update calls: what a finalization yields is what one update
\* with the whole message on a new hasher yields.
ChunkingInvariance ==
    (pc = "done" /\ last = "finalize") =>
        LET one == OneShot(alg, req, msg) IN one.ok /\ out = one.out

\* C1 happens: a message longer than two blocks, not a whole number of
\* blocks, absorbed in several updates and finalized
ChunkingInvarianceWitness ==
    /\ pc = "done"
    /\ last = "finalize"
    /\ nupd >= 2
    /\ nreset = 0
    /\ Len(msg) > 2 * BlockSize(alg)
    /\ Len(msg) % BlockSize(alg) # 0

\* the buffer cursor of the hasher
Pos == GetPos(hasher.buffer)

\* C2 as stated: after construction, update and reset the buffer position of
\* every hasher, the BLAKE2 ones included, is strictly less than the block
\* size.
PositionBelowBlockSize ==
    pc \in {"ready", "done"} => Pos < BlockSize(alg)

\* C2, amended: the position is strictly less than the block size for every
\* hasher but BLAKE2b and BLAKE2s; their buffer keeps a full last block, so
\* their position is at most the block size, and is the block size exactly
\* when a positive whole number of blocks has been absorbed.
PositionWithinBlock ==
    pc \in {"ready", "done"} =>
        IF alg \in Blake2Names
        THEN /\ Pos <= BlockSize(alg)
             /\ (pc = "ready" =>
                   (Pos = BlockSize(alg) <=>
                      (Len(msg) > 0 /\ Len(msg) % BlockSize(alg) = 0)))
        ELSE Pos < BlockSize(alg)

\* C2 happens: a BLAKE2 hasher holding a full block after several updates
PositionWithinBlockWitness ==
    /\ pc = "ready"
    /\ alg \in Blake2Names
    /\ nupd >= 2
    /\ Len(msg) > BlockSize(alg)
    /\ Pos = BlockSize(alg)

\* C3: on a hasher with reset, a reset (alone or after a finalization)
\* leaves the core equal to a new one and the buffer empty, and what is
\* absorbed and finalized afterwards gives the digest a new hasher gives.
ResetRestores ==
    /\ last \in {"reset", "finalize_reset"} =>
          /\ hasher.core = Default(alg)
          /\ Pos = 0
    /\ (pc = "done" /\ nreset > 0) =>
          LET one == OneShot(alg, req, msg) IN one.ok /\ out = one.out

\* C3 happens: updates that left a partial block, a reset, more updates, and
\* a finalization
ResetRestoresWitness ==
    /\ pc = "done"
    /\ nreset = 1
    /\ start % BlockSize(alg) # 0
    /\ start > BlockSize(alg)
    /\ Len(msg) > 0
    /\ last = "finalize"

\* the cores that pad through pad_with and expect it to succeed
PadWithNames == {"Md2"} \cup Sha3FixedNames \cup ShakeNames \cup ShabalNames

\* the digest size of a hasher, in bytes
OutputSize(a) ==
    CASE a \in {"Md2", "Md5"} -> 16
      [] a = "Sha1" -> 20
      [] a = "Sm3" -> 32
      [] a \in {"Tiger", "Tiger2"} -> 24
      [] a \in Sha2Names -> Sha2OutSize(a)
      [] a \in RipemdNames -> RipemdOutSize(a)
      [] a \in Sha3FixedNames -> Sha3OutSize(a)
      [] a \in ShabalNames -> ShabalOutSize(a)
      [] a = "Streebog256" -> 32
      [] a = "Streebog512" -> 64
      [] a \in VarNames -> req.output_size

\* C13: on a validly constructed hasher no update, reset or finalization
\* fails or panics, after any sequence of updates: a hasher that can absorb
\* can be finalized, the cores that pad through pad_with never do so at a
\* position of the block size or more, and the digest fills exactly the
\* output it is written to.  It holds of the short runs of Spec and fails
\* in SpecWrap, where the counters leave their range.
Infallible ==
    /\ pc # "panic"
    /\ (pc = "ready") =>
          /\ FinalizeOutcomes(alg, hasher) = {"returns"}
          /\ \A k \in lens : UpdateOutcomes(alg, hasher, Input(fed, k)) = {"returns"}
          /\ (alg \in PadWithNames) => Pos < BlockSize(alg)
    /\ (pc = "done" /\ alg \notin XofNames) => Len(out.bytes) = OutputSize(alg)

\* a core that pads through pad_with was finalized with its buffer one byte
\* short of a block, after more than a block of input
InfallibleWitness ==
    /\ pc = "done"
    /\ last = "finalize"
    /\ alg \in PadWithNames
    /\ nupd >= 2
    /\ Len(msg) > BlockSize(alg)
    /\ Len(msg) % BlockSize(alg) = BlockSize(alg) - 1

\* C14: the Debug rendering of a core is the name of its type followed by
\* " { ... }", whatever its compression state, counters and absorbed input:
\* it is what the rendering of a newly constructed core of the type is.
DebugIsOpaque ==
    (pc \in {"ready", "done"}) =>
        /\ DebugFmt(alg, hasher.core) = alg \o "Core { ... }"
        /\ DebugFmt(alg, hasher.core) = DebugFmt(alg, Construct(alg, req).hasher.core)

\* C14 happens: a core that has compressed more than a block, and so differs
\* from a new one in state and counter
DebugIsOpaqueWitness ==
    /\ pc = "ready"
    /\ nupd >= 2
    /\ Len(msg) > 2 * BlockSize(alg)
    /\ hasher.core # Construct(alg, req).hasher.core

\* the state of the compression engine a core holds
EngineState(a, core) ==
    CASE a = "Md2" -> core.x
      [] a \in {"Md5", "Tiger", "Tiger2"} \cup Sha2Names -> core.state
      [] a \in {"Sha1", "Sm3"} \cup RipemdNames -> core.h
      [] a \in Sha3FixedNames \cup ShakeNames -> core.state
      [] a \in Blake2Names -> core.h
      [] a \in GroestlNames -> core.state
      [] a \in ShabalNames -> core.state.abc
      [] a \in StreebogNames -> core.state.h

\* how many blocks were passed to the compression engine (a Shabal block
\* goes through add_m once)
BlocksCompressed(a, core) ==
    LET e == EngineState(a, core).absorbed
    IN  IF a \in ShabalNames
        THEN Cardinality({i \in 1..Len(e) : e[i].op = "add_m"})
        ELSE Len(e)

\* C16: for every hasher, after any sequence of update calls totalling L
\* bytes, L is the number of blocks passed to the compression engine times
\* the block size, plus the buffer position.
ByteAccounting ==
    (pc = "ready") =>
        Len(msg) = BlocksCompressed(alg, hasher.core) * BlockSize(alg) + Pos

\* C16 happens: several updates left whole blocks in the engine and a
\* remainder in the buffer
ByteAccountingWitness ==
    /\ pc = "ready"
    /\ nupd >= 2
    /\ BlocksCompressed(alg, hasher.core) >= 2
    /\ Pos > 0
    /\ Len(msg) = BlocksCompressed(alg, hasher.core) * BlockSize(alg) + Pos

\* the bytes the step feeds make the buffer forward a full block: an eager
\* buffer when they fill it, a lazy one when they go past its end
ForwardsBlock ==
    IF Lazy(alg) THEN Pos + (fed' - fed) > BlockSize(alg)
    ELSE Pos + (fed' - fed) >= BlockSize(alg)

\* the step is a call of update
UpdateStep == pc = "ready" /\ last' = "update" /\ nupd' = nupd + 1

\* C25: for every hasher, an update whose bytes do not complete a block,
\* and any update with empty input, leaves the compression state and all
\* length and block counters unchanged; they change only when a full block
\* is forwarded to update_blocks or during finalize (reset puts the initial
\* ones back).
FrameOfPartialUpdates ==
    [][/\ (UpdateStep /\ Pos + (fed' - fed) < BlockSize(alg))
             => hasher'.core = hasher.core
       /\ (pc = "ready" /\ hasher'.core # hasher.core)
             => \/ UpdateStep /\ ForwardsBlock
                \/ last' \in {"finalize", "finalize_reset"}
                \/ last' = "reset" /\ hasher'.core = Default(alg)]_vars

\* C25 happens: whole blocks were compressed, and the last update left a
\* single byte in the buffer
FrameOfPartialUpdatesWitness ==
    /\ pc = "ready"
    /\ last = "update"
    /\ nupd >= 2
    /\ BlocksCompressed(alg, hasher.core) >= 2
    /\ Pos = 1
    /\ Len(msg) = 2 * BlockSize(alg) + 1

\* ------------------------------------------------------------------------
\* Extendable output: the reader wrapper (digest::core_api::XofReaderCoreWrapper)
\* and the runs that squeeze.  Output bytes are kept run-length encoded: a
\* segment [state, lo, hi] is the bytes lo..hi-1 of the serialization of state.
\* ------------------------------------------------------------------------

Seg(state, lo, hi) == [state |-> state, lo |-> lo, hi |-> hi]

\* the byte string bytes followed by the bytes of seg
Emit(bytes, seg) ==
    IF seg.lo >= seg.hi THEN bytes
    ELSE IF bytes # <<>> /\ bytes[Len(bytes)].state = seg.state
                         /\ bytes[Len(bytes)].hi = seg.lo
    THEN [bytes EXCEPT ![Len(bytes)].hi = seg.hi]
    ELSE Append(bytes, seg)

\* XofReaderCoreWrapper { core, buffer: Default::default() }: the buffer is a
\* block of zero bytes, which is what the all-zero state serializes to
ReaderWrapper(name, core) ==
    [core   |-> core,
     buffer |-> [block |-> [state |-> Sha3StateDefault, n |-> Sha3Rate(name)],
                 pos   |-> 0]]

RECURSIVE ReadBlocks(_, _, _, _)
\* process_blocks over nb whole blocks of the destination
ReadBlocks(name, core, nb, bytes) ==
    IF nb = 0 THEN [core |-> core, out |-> bytes]
    ELSE LET r == ShakeReadBlock(name, core)
         IN  ReadBlocks(name, r.reader, nb - 1,
                        Emit(bytes, Seg(r.block.state, 0, r.block.n)))

\* XofReader::read(buffer) with buffer.len() = n: BlockBuffer::set_data
XofRead(name, rd, n) ==
    LET bs  == Sha3Rate(name)
        pos == rd.buffer.pos
        r   == bs - pos
    IN  IF pos # 0 /\ n < r
        THEN [reader |-> [rd EXCEPT !.buffer.pos = pos + n],
              out    |-> Emit(<<>>, Seg(rd.buffer.block.state, pos, pos + n))]
        ELSE LET left  == IF pos # 0
                          THEN Emit(<<>>, Seg(rd.buffer.block.state, pos, bs))
                          ELSE <<>>
                 n1    == IF pos # 0 THEN n - r ELSE n
                 whole == ReadBlocks(name, rd.core, n1 \div bs, left)
                 lo    == n1 % bs
                 tail  == ShakeReadBlock(name, whole.core)
             IN  IF lo = 0
                 THEN [reader |-> [core |-> whole.core,
                                   buffer |-> [rd.buffer EXCEPT !.pos = 0]],
                       out    |-> whole.out]
                 ELSE [reader |-> [core |-> tail.reader,
                                   buffer |-> [block |-> tail.block, pos |-> lo]],
                       out    |-> Emit(whole.out, Seg(tail.block.state, 0, lo))]

RECURSIVE Concat(_, _)
\* the byte string a followed by the byte string b
Concat(a, b) == IF b = <<>> THEN a ELSE Concat(Emit(a, Head(b)), Tail(b))

\* the most readers in one run, clones included
MaxReaders == 2

\* the most read calls in one run
MaxReads == 3

\* read lengths around the rate
ReadLens(a) == LET bs == Sha3Rate(a) IN {0, 1, bs - 1, bs, 2 * bs + 1}

\* a new entry of readers: the reader wrapper and its history (what the
\* source core's state was when the reader was made, which message the source
\* had absorbed if its history is a plain message, what was read so far)
NewReader(name, core, snap, plain, from, to) ==
    [rd |-> ReaderWrapper(name, core), snap |-> snap, plain |-> plain,
     from |-> from, to |-> to, got |-> <<>>, total |-> 0]

\* the SHAKE hashers, fed one byte or nearly a block at a time, and read at
\* lengths around the rate
InitXof ==
    /\ alg \in XofNames
    /\ req = NoReq
    /\ lens = {1, BlockSize(alg) - 1}
    /\ rlens = ReadLens(alg)
    /\ InitCommon

\* ExtendableOutput::finalize_xof: the hasher is consumed, a reader is made
FinalizeXof ==
    /\ pc = "ready"
    /\ LET r == WrapperFinalize(alg, hasher)
       IN  /\ pc' = IF r.ok THEN "done" ELSE "panic"
           /\ hasher' = r.hasher
           /\ readers' = IF r.ok
                         THEN Append(readers,
                                  NewReader(alg, r.out, r.hasher.core.state,
                                            TRUE, start, fed))
                         ELSE readers
    /\ last' = "finalize_xof"
    /\ UNCHANGED <<alg, req, lens, start, fed, nupd, nreset, out, rlens, nread>>

\* XofReader::read on one of the readers
Read ==
    /\ nread < MaxReads
    /\ \E i \in 1..Len(readers) : \E n \in rlens :
         LET r == XofRead(alg, readers[i].rd, n)
         IN  readers' = [readers EXCEPT ![i].rd = r.reader,
                                        ![i].got = Concat(@, r.out),
                                        ![i].total = @ + n]
    /\ nread' = nread + 1
    /\ last' = "read"
    /\ UNCHANGED <<alg, req, lens, pc, hasher, start, fed, nupd, nreset, out, rlens>>

NextXof == New \/ Update \/ FinalizeXof \/ Read

SpecXof == InitXof /\ [][NextXof]_vars

\* the SHAKE hashers used at the level of their cores, so that the source
\* outlives its readers
InitReaders ==
    /\ alg \in XofNames
    /\ req = NoReq
    /\ lens = {BlockSize(alg) - 1}
    /\ rlens = {BlockSize(alg) - 1}
    /\ InitCommon

\* ExtendableOutputCore::finalize_xof_core on the core and buffer of the
\* hasher, which stays usable: its core has absorbed the padded block
FinalizeXofCore ==
    /\ pc \in {"ready", "squeezed"}
    /\ Len(readers) < MaxReaders
    /\ LET r == ShakeFinalizeXofCore(alg, hasher.core, hasher.buffer)
       IN  /\ r.ok
           /\ hasher' = [hasher EXCEPT !.core = r.core, !.buffer = r.buf]
           /\ readers' = Append(readers,
                  NewReader(alg, r.reader, r.core.state, pc = "ready", start, fed))
    /\ pc' = "squeezed"
    /\ last' = "finalize_xof_core"
    /\ UNCHANGED <<alg, req, lens, start, fed, nupd, nreset, out, rlens, nread>>

\* update on a source whose core has been through finalize_xof_core
UpdateSqueezed ==
    /\ pc = "squeezed"
    /\ nupd < MaxUpdates
    /\ \E k \in lens :
         /\ hasher' = WrapperUpdate(alg, hasher, Input(fed, k))
         /\ fed' = fed + k
    /\ nupd' = nupd + 1
    /\ last' = "update"
    /\ UNCHANGED <<alg, req, lens, pc, start, nreset, out, readers, rlens, nread>>

\* reset of a source whose core has been through finalize_xof_core
ResetSqueezed ==
    /\ pc = "squeezed"
    /\ nreset < MaxResets
    /\ hasher' = WrapperReset(alg, hasher)
    /\ start' = fed
    /\ nreset' = nreset + 1
    /\ pc' = "ready"
    /\ last' = "reset"
    /\ UNCHANGED <<alg, req, lens, fed, nupd, out, readers, rlens, nread>>

\* Clone::clone of one of the readers
CloneReader ==
    /\ Len(readers) < MaxReaders
    /\ \E i \in 1..Len(readers) : readers' = Append(readers, readers[i])
    /\ last' = "clone"
    /\ UNCHANGED <<alg, req, lens, pc, hasher, start, fed, nupd, nreset, out,
                   rlens, nread>>

NextReaders ==
    \/ New
    \/ Update
    \/ FinalizeXofCore
    \/ UpdateSqueezed
    \/ ResetSqueezed
    \/ Read
    \/ CloneReader

SpecReaders == InitReaders /\ [][NextReaders]_vars

\* n bytes read in one call from a new reader over the state st
ReadOnce(a, st, n) == XofRead(a, ReaderWrapper(a, [state |-> st]), n).out

RECURSIVE Stream(_, _, _)
\* the first n bytes of the squeezed stream of the state st: the first rate
\* bytes of st, then of its permutation, and so on
Stream(a, st, n) ==
    IF n <= 0 THEN <<>>
    ELSE IF n <= Sha3Rate(a) THEN <<Seg(st, 0, n)>>
    ELSE <<Seg(st, 0, Sha3Rate(a))>> \o Stream(a, ApplyF(st), n - Sha3Rate(a))

\* C4: what several reads on a reader gave, put together, is what one read of
\* the total length gives on the reader of an identically fed hasher, and is
\* the leading bytes of the squeezed stream.
SqueezeContinuity ==
    \A i \in 1..Len(readers) :
        LET r == readers[i]
            one == OneShot(alg, req, Input(r.from, r.to - r.from))
        IN  r.plain =>
              /\ one.ok
              /\ r.got = XofRead(alg, ReaderWrapper(alg, one.out), r.total).out
              /\ r.got = Stream(alg, one.out.state, r.total)

\* C4 happens: two reads on one reader, the first ending inside a block and
\* the second crossing into the next block
SqueezeContinuityWitness ==
    \E i \in 1..Len(readers) :
        /\ readers[i].plain
        /\ nread >= 2
        /\ readers[i].to - readers[i].from > 1
        /\ readers[i].rd.buffer.pos # 0
        /\ readers[i].total > 2 * Sha3Rate(alg)
        /\ Len(readers[i].got) >= 3

\* the most calls of read_block followed on one reader core
MaxBlocks == 6

RECURSIVE Permuted(_, _)
\* f^i(st): the permutation applied i times
Permuted(st, i) == IF i = 0 THEN st ELSE ApplyF(Permuted(st, i - 1))

RECURSIVE NthBlock(_, _, _)
\* the block the i-th call of read_block returns (i >= 0), on the reader
\* core rd
NthBlock(name, rd, i) ==
    IF i = 0 THEN ShakeReadBlock(name, rd).block
    ELSE NthBlock(name, ShakeReadBlock(name, rd).reader, i - 1)

\* how many blocks a reader has taken from its core for the bytes it gave
BlocksTaken(r) == (r.total + Sha3Rate(alg) - 1) \div Sha3Rate(alg)

\* C26: for SHAKE128/256 the i-th block the reader core returns (i >= 0) is
\* the first rate bytes of f^i(S), S the sponge state right after the
\* padded final block was absorbed and f the Keccak permutation: read_block
\* serializes the current state first and permutes afterwards, any number
\* of times.
SqueezeOrder ==
    \A k \in 1..Len(readers) :
        LET r == readers[k]
            S == OneShot(alg, req, Input(r.from, r.to - r.from)).out.state
        IN  r.plain =>
              /\ \A i \in 0..MaxBlocks :
                     NthBlock(alg, [state |-> S], i)
                        = [state |-> Permuted(S, i), n |-> Sha3Rate(alg)]
              /\ r.rd.core.state = Permuted(S, BlocksTaken(r))
              /\ Len(r.got) = BlocksTaken(r)
              /\ \A j \in 1..Len(r.got) :
                     /\ r.got[j].state = Permuted(S, j - 1)
                     /\ r.got[j].lo = 0
                     /\ r.got[j].hi = IF j < Len(r.got) THEN Sha3Rate(alg)
                                      ELSE r.total - (j - 1) * Sha3Rate(alg)

\* C26 happens: several reads took more than three blocks from a reader
\* core, whose state has been permuted once for each
SqueezeOrderWitness ==
    \E k \in 1..Len(readers) :
        /\ readers[k].plain
        /\ nread >= 2
        /\ BlocksTaken(readers[k]) >= 4
        /\ Len(readers[k].got) = BlocksTaken(readers[k])
        /\ readers[k].rd.core.state
              = Permuted(readers[k].snap, BlocksTaken(readers[k]))

\* a read changes nothing but the reader it is made on
ReadFrame ==
    (last' = "read" /\ nread' = nread + 1) =>
        /\ hasher' = hasher
        /\ Len(readers') = Len(readers)
        /\ Cardinality({i \in 1..Len(readers) : readers'[i] # readers[i]}) <= 1

\* every reader has produced what a reader over the state the source core
\* had when the reader was made produces, whatever was done since
ReadersKeepTheirState ==
    \A i \in 1..Len(readers) :
        LET r == readers[i]
        IN  /\ r.got = ReadOnce(alg, r.snap, r.total)
            /\ r.got = Stream(alg, r.snap, r.total)

\* C5: the reader holds its own copy of the state the source core had after
\* absorbing the padded block: what it produces is fixed by that state,
\* whatever is done to the source or to other readers and clones afterwards,
\* and a read changes neither the source nor any other reader.
ReaderIndependence == [](ReadersKeepTheirState) /\ [][ReadFrame]_vars

\* C5 happens: the source was updated or reset after a reader was made, the
\* reader and a second reader or clone have both been read from
ReaderIndependenceWitness ==
    /\ Len(readers) = 2
    /\ readers[1].total > BlockSize(alg)
    /\ readers[2].total > 0
    /\ readers[1].got # readers[2].got
    /\ fed > readers[1].to
    /\ hasher.core.state # readers[1].snap

\* ------------------------------------------------------------------------
\* Variable-output hashers at every requested size
\* ------------------------------------------------------------------------

\* how far above the largest output size the requested sizes go
MaxExcess == 2

\* the variable-output hashers, asked for every size from 0 to past the
\* largest, and fed a few bytes or a block at a time
InitVar ==
    /\ alg \in VarNames
    /\ req \in {SizeReq(n) : n \in 0..(MaxOutputSize(alg) + MaxExcess)}
    /\ lens = {3, BlockSize(alg)}
    /\ rlens = {}
    /\ InitCommon

NextVar == New \/ Update \/ Finalize

SpecVar == InitVar /\ [][NextVar]_vars

\* the largest output size, as the documentation states it
StatedMax(a) == IF a \in {"Blake2bVar", "GroestlLongVar"} THEN 64 ELSE 32

\* C6: new(output_size) returns the error exactly when output_size exceeds
\* the maximum (64 for BLAKE2b and the long Groestl, 32 for BLAKE2s and the
\* short Groestl); for 0 up to the maximum it returns a hasher, and with the
\* error there is no hasher.
ConstructionBounds ==
    pc # "start" =>
        /\ pc # "panic"
        /\ (pc = "err") <=> (req.output_size > StatedMax(alg))
        /\ (pc = "err") => hasher = NoHasher
        /\ (pc # "err") => /\ hasher # NoHasher
                           /\ hasher.output_size = req.output_size
        /\ (pc = "ready" /\ last = "new") =>
               /\ hasher.core = VarNew(alg, req.output_size).core
               /\ Pos = 0

\* C6 happens: the first size past the maximum has been refused
ConstructionBoundsWitness ==
    /\ pc = "err"
    /\ last = "new"
    /\ req.output_size = StatedMax(alg) + 1

\* C9: the slice handed to the sink by finalize_variable has exactly the
\* length the hasher was constructed with.
SinkLength ==
    (pc = "done" /\ last = "finalize") => Len(out.bytes) = req.output_size

\* C9 happens: a hasher of a size strictly between 0 and the maximum has
\* absorbed more than a block and been finalized
SinkLengthWitness ==
    /\ pc = "done"
    /\ last = "finalize"
    /\ req.output_size > 0
    /\ req.output_size < StatedMax(alg)
    /\ Len(msg) > BlockSize(alg)
    /\ Len(out.bytes) = req.output_size

\* the whole final state serialized: the eight words of h little-endian for
\* BLAKE2, the columns of the permuted state big-endian for Groestl
Serialized(a) ==
    IF a \in Blake2Names
    THEN Flatten([j \in 1..8 |-> SymLe(j - 1, 2 * Blake2WordLimbs(a))])
    ELSE Flatten([j \in 1..GroestlCols(a) |-> SymBe(j - 1, 8)])

\* C10 as stated: for BLAKE2 and Groestl alike the sink gets the first
\* output_size bytes of the serialized final state.
SinkGetsLowBytes ==
    (pc = "done" /\ last = "finalize") =>
        out.bytes = Take(Serialized(alg), req.output_size)

\* C10, amended: BLAKE2 hands over the first output_size bytes of the
\* serialized final state, Groestl the last output_size bytes.
SinkGetsLowOrHighBytes ==
    (pc = "done" /\ last = "finalize") =>
        IF alg \in Blake2Names
        THEN out.bytes = Take(Serialized(alg), req.output_size)
        ELSE out.bytes = Drop(Serialized(alg),
                              Len(Serialized(alg)) - req.output_size)

\* C10 happens: a Groestl hasher of less than the largest size has been
\* finalized and its output is not the head of the serialized state
SinkGetsLowOrHighBytesWitness ==
    /\ pc = "done"
    /\ last = "finalize"
    /\ alg \in GroestlNames
    /\ req.output_size > 0
    /\ req.output_size < StatedMax(alg)
    /\ nupd > 0
    /\ out.bytes # Take(Serialized(alg), req.output_size)

\* the initial compression state a variable-output core was constructed with
InitialState(a, core) == IF a \in Blake2Names THEN core.h.iv ELSE core.state.iv

\* valid sizes next to n and at both ends of the range
OtherSizes(a, n) ==
    {m \in {0, 1, n - 1, n + 1, MaxOutputSize(a)} :
        m # n /\ m >= 0 /\ m <= MaxOutputSize(a)}

\* C11: the requested output size is part of the initial compression state:
\* every other valid size gives a different initial state (BLAKE2: the low
\* byte of IV word 0 xor state word 0 is the size; Groestl: the last column
\* is 8 times the size), and the final state a digest is serialized from
\* differs from the final state of the same message at another size.
SizeInInitialState ==
    (pc \in {"ready", "done"}) =>
        /\ (last = "new") =>
              \A n \in 0..MaxOutputSize(alg) :
                  n # req.output_size =>
                     InitialState(alg, hasher.core)
                         # InitialState(alg, VarNew(alg, n).core)
        /\ IF alg \in Blake2Names
           THEN XorBits(InitialState(alg, hasher.core)[1][1], Blake2IV(alg)[1][1], 16)
                    % 256 = req.output_size
           ELSE InitialState(alg, hasher.core)[GroestlCols(alg)]
                    = WNat(8 * req.output_size, 4)
        /\ (pc = "done") =>
              \A n \in OtherSizes(alg, req.output_size) :
                  out.state # OneShot(alg, SizeReq(n), msg).out.state

\* C11 happens: a digest of a size strictly inside the range was produced
\* from more than a block of input
SizeInInitialStateWitness ==
    /\ pc = "done"
    /\ last = "finalize"
    /\ req.output_size > 1
    /\ req.output_size < MaxOutputSize(alg)
    /\ Len(msg) > BlockSize(alg)
    /\ Cardinality(OtherSizes(alg, req.output_size)) >= 4

\* ------------------------------------------------------------------------
\* Hashers whose counters are at the end of their range
\* ------------------------------------------------------------------------

\* log2 of the block size of a core with a counter
Log2BlockSize(a) == IF BlockSize(a) = 128 THEN 7 ELSE 6

\* how many blocks of zero bytes a hasher has absorbed when a run takes it
\* up: none; two blocks short of the range of its counter; and, where a bit
\* length is written, one block short of the range of the bit length
ResumePoints(a) ==
    LET cb == 16 * CounterLimbs(a)
        lb == Log2BlockSize(a)
    IN  {WNat(0, WideLimbs)}
        \cup (CASE a \in BitLenNames \cup GroestlNames ->
                       {WSubSmall(WOnes(cb, WideLimbs), 1)}
                [] a \in ShabalNames -> {WSubSmall(WOnes(cb, WideLimbs), 2)}
                [] a \in Blake2Names -> {WOnes(cb - lb, WideLimbs)}
                [] a \in StreebogNames -> {WSubSmall(WOnes(cb - 9, WideLimbs), 1)})
        \cup (IF a \in BitLenNames THEN {WOnes(cb - 3 - lb, WideLimbs)} ELSE {})

\* the cores that count, taken up at the resume points and fed a byte, a
\* block or two blocks at a time
InitWrap ==
    /\ alg \in CounterNames
    /\ req \in {ResumeReq(IF alg \in VarNames THEN MaxOutputSize(alg) ELSE 0, k) :
                   k \in ResumePoints(alg)}
    /\ lens = {1, BlockSize(alg), 2 * BlockSize(alg)}
    /\ rlens = {}
    /\ InitCommon

NextWrap == New \/ Update \/ Finalize

SpecWrap == InitWrap /\ [][NextWrap]_vars

\* history: the blocks absorbed before the run took the hasher up
ResumedBlocks == IF nreset = 0 THEN WCast(req.blocks, WideLimbs) ELSE WNat(0, WideLimbs)

\* history: the bytes absorbed since construction or the last reset, as a
\* wide integer that does not wrap
TrueBytes == WAdd(WMul(ResumedBlocks, BlockSize(alg)), WNat(fed - start, WideLimbs))

\* history: the blocks among them that are no longer in the buffer
TrueBlocks ==
    IF Lazy(alg) /\ ResumedBlocks # WNat(0, WideLimbs)
    THEN WAdd(WSubSmall(ResumedBlocks, 1),
              WNat((BlockSize(alg) + fed - start - Pos) \div BlockSize(alg), WideLimbs))
    ELSE WAdd(ResumedBlocks, WNat((fed - start - Pos) \div BlockSize(alg), WideLimbs))

\* what the counter of a hasher that can absorb more should hold: the blocks
\* compressed (plus one for Shabal, which counts from 1), the bytes
\* compressed (BLAKE2) or the bits compressed (Streebog), modulo its range
ExpectedCounter ==
    CASE alg \in BitLenNames \cup GroestlNames ->
             WCast(TrueBlocks, CounterLimbs(alg))
      [] alg \in ShabalNames -> WCast(WAdd(TrueBlocks, WNat(1, WideLimbs)), 4)
      [] alg \in Blake2Names -> WCast(WMul(TrueBlocks, BlockSize(alg)), 4)
      [] alg \in StreebogNames -> WCast(WMul(TrueBlocks, 512), 32)

\* the last block the finalization compressed
LastBlock == out.state.absorbed[Len(out.state.absorbed)]

\* the bytes of the length field of the last block
LengthField == Drop(LastBlock, BlockSize(alg) - 2 * CounterLimbs(alg))

\* a counter value in the byte order the core writes it in
LengthBytes(v) ==
    IF alg \in {"Md5", "Tiger", "Tiger2"} \cup RipemdNames THEN WToLeBytes(v)
    ELSE WToBeBytes(v)

\* the counters and the lengths derived from them hold the true values
\* modulo their range
CountersHoldTrueValues ==
    /\ (pc = "ready") => Counter(alg, hasher.core) = ExpectedCounter
    /\ (pc = "done" /\ alg \in BitLenNames) =>
          LengthField = LengthBytes(WCast(WMul(TrueBytes, 8), CounterLimbs(alg)))
    /\ (pc = "done" /\ alg \in Blake2Names) =>
          Counter(alg, hasher.core) = WCast(TrueBytes, 4)
    /\ (pc = "done" /\ alg \in StreebogNames) =>
          Counter(alg, hasher.core) = WCast(WMul(TrueBytes, 8), 32)

\* the true count has left the range of what the core computes with
RangeExceeded ==
    CASE alg \in BitLenNames ->
             WMul(TrueBytes, 8)
                 # WCast(WCast(WMul(TrueBytes, 8), CounterLimbs(alg)), WideLimbs)
      [] alg \in Blake2Names -> TrueBytes # WCast(WCast(TrueBytes, 4), WideLimbs)
      [] alg \in GroestlNames ->
             WAdd(TrueBlocks, WNat(2, WideLimbs))
                 # WCast(WCast(WAdd(TrueBlocks, WNat(2, WideLimbs)), 4), WideLimbs)
      [] alg \in ShabalNames ->
             WAdd(TrueBlocks, WNat(1, WideLimbs))
                 # WCast(WCast(WAdd(TrueBlocks, WNat(1, WideLimbs)), 4), WideLimbs)
      [] alg \in StreebogNames ->
             WMul(TrueBytes, 8) # WCast(WCast(WMul(TrueBytes, 8), 32), WideLimbs)

\* C12 as stated: for every core, when what was absorbed exceeds the range
\* of the counter, update and finalize complete normally (nothing panics)
\* and the counter and the bit length hold the true value modulo the range.
CountersWrapSilently ==
    /\ pc # "panic"
    /\ CountersHoldTrueValues

\* what holds instead: an operation that completes leaves the true values
\* modulo the range, MD5, Shabal and Streebog always complete, and the other
\* cores can panic only once the range is exceeded
CountersWrapOrPanic ==
    /\ CountersHoldTrueValues
    /\ (pc = "panic") => (alg \in PlainArithmeticNames /\ RangeExceeded)

\* a core with wrapping arithmetic has gone past the range and finalized
CountersWrapOrPanicWitness ==
    /\ pc = "done"
    /\ alg = "Md5"
    /\ nupd >= 2
    /\ RangeExceeded

\* what holds of failures at any length: a panic needs plain arithmetic and
\* a count past the range; padding never sees a position of the block size
\* or more; the digest fills the output it is written to
InfallibleWithinRange ==
    /\ (pc = "panic") => (alg \in PlainArithmeticNames /\ RangeExceeded)
    /\ (pc = "ready" /\ alg \in PadWithNames) => Pos < BlockSize(alg)
    /\ (pc = "ready" /\ alg \notin PlainArithmeticNames) =>
          /\ FinalizeOutcomes(alg, hasher) = {"returns"}
          /\ \A k \in lens : UpdateOutcomes(alg, hasher, Input(fed, k)) = {"returns"}
    /\ (pc = "done" /\ alg \notin XofNames) => Len(out.bytes) = OutputSize(alg)

\* C17: for MD5, SHA-1, SHA-2, SM3, RIPEMD-160/320, Tiger and Tiger2, after
\* updates totalling L bytes, however chunked, the last bytes of the last
\* block finalize compresses are 8 * L modulo 2^64 (modulo 2^128 for the
\* SHA-512 family), little-endian for MD5, RIPEMD and Tiger, big-endian for
\* SHA-1, SHA-2 and SM3.
LengthFieldValue ==
    (pc = "done" /\ alg \in BitLenNames) =>
        /\ Len(LastBlock) = BlockSize(alg)
        /\ LengthField = LengthBytes(WCast(WMul(TrueBytes, 8), CounterLimbs(alg)))

\* C17 happens: a total that is not a whole number of blocks and whose bit
\* length is past the range of the field, fed in several updates, finalized
LengthFieldValueWitness ==
    /\ pc = "done"
    /\ alg \in BitLenNames
    /\ nupd >= 2
    /\ fed % BlockSize(alg) # 0
    /\ RangeExceeded
    /\ LengthField # Rep(0, 2 * CounterLimbs(alg))

\* ------------------------------------------------------------------------
\* The MD5 compression function (md5: mod compress).  Words are u32, kept as
\* two 16-bit limbs, low limb first.
\* ------------------------------------------------------------------------

RECURSIVE AndBits(_, _, _)
AndBits(x, y, n) ==
    IF n = 0 THEN 0
    ELSE ((x % 2) * (y % 2)) + 2 * AndBits(x \div 2, y \div 2, n - 1)

\* a & b
WAnd(a, b) == [i \in 1..Len(a) |-> AndBits(a[i], b[i], 16)]

\* !a
WNot(a) == [i \in 1..Len(a) |-> Limb - 1 - a[i]]

\* a | b
WOr(a, b) == WNot(WAnd(WNot(a), WNot(b)))

\* x.rotate_left(s) on a u32, 0 <= s < 32
RotateLeft32(x, s) ==
    LET lo == IF s >= 16 THEN x[2] ELSE x[1]
        hi == IF s >= 16 THEN x[1] ELSE x[2]
        r  == s % 16
    IN  <<((lo * (2 ^ r)) % Limb) + (hi \div (2 ^ (16 - r))),
          ((hi * (2 ^ r)) % Limb) + (lo \div (2 ^ (16 - r)))>>

\* the 64 additive constants: floor(2^32 * abs(sin(i + 1)))
Md5RC ==
    <<
     W32(\hD76A, \hA478), W32(\hE8C7, \hB756), W32(\h2420, \h70DB), W32(\hC1BD, \hCEEE),
     W32(\hF57C, \h0FAF), W32(\h4787, \hC62A), W32(\hA830, \h4613), W32(\hFD46, \h9501),
     W32(\h6980, \h98D8), W32(\h8B44, \hF7AF), W32(\hFFFF, \h5BB1), W32(\h895C, \hD7BE),
     W32(\h6B90, \h1122), W32(\hFD98, \h7193), W32(\hA679, \h438E), W32(\h49B4, \h0821),
     W32(\hF61E, \h2562), W32(\hC040, \hB340), W32(\h265E, \h5A51), W32(\hE9B6, \hC7AA),
     W32(\hD62F, \h105D), W32(\h0244, \h1453), W32(\hD8A1, \hE681), W32(\hE7D3, \hFBC8),
     W32(\h21E1, \hCDE6), W32(\hC337, \h07D6), W32(\hF4D5, \h0D87), W32(\h455A, \h14ED),
     W32(\hA9E3, \hE905), W32(\hFCEF, \hA3F8), W32(\h676F, \h02D9), W32(\h8D2A, \h4C8A),
     W32(\hFFFA, \h3942), W32(\h8771, \hF681), W32(\h6D9D, \h6122), W32(\hFDE5, \h380C),
     W32(\hA4BE, \hEA44), W32(\h4BDE, \hCFA9), W32(\hF6BB, \h4B60), W32(\hBEBF, \hBC70),
     W32(\h289B, \h7EC6), W32(\hEAA1, \h27FA), W32(\hD4EF, \h3085), W32(\h0488, \h1D05),
     W32(\hD9D4, \hD039), W32(\hE6DB, \h99E5), W32(\h1FA2, \h7CF8), W32(\hC4AC, \h5665),
     W32(\hF429, \h2244), W32(\h432A, \hFF97), W32(\hAB94, \h23A7), W32(\hFC93, \hA039),
     W32(\h655B, \h59C3), W32(\h8F0C, \hCC92), W32(\hFFEF, \hF47D), W32(\h8584, \h5DD1),
     W32(\h6FA8, \h7E4F), W32(\hFE2C, \hE6E0), W32(\hA301, \h4314), W32(\h4E08, \h11A1),
     W32(\hF753, \h7E82), W32(\hBD3A, \hF235), W32(\h2AD7, \hD2BB), W32(\hEB86, \hD391)
    >>

\* the per-round shift amounts
Md5Shifts == <<<<7, 12, 17, 22>>, <<5, 9, 14, 20>>, <<4, 11, 16, 23>>, <<6, 10, 15, 21>>>>

\* the round function of step i (0-based) on the words b, c, d
Md5Mix(i, b, c, d) ==
    CASE i < 16 -> WOr(WAnd(b, c), WAnd(WNot(b), d))
      [] i >= 16 /\ i < 32 -> WOr(WAnd(b, d), WAnd(c, WNot(d)))
      [] i >= 32 /\ i < 48 -> WXor(WXor(b, c), d)
      [] i >= 48 -> WXor(c, WOr(b, WNot(d)))

\* which word of the block step i takes
Md5WordIndex(i) ==
    CASE i < 16 -> i
      [] i >= 16 /\ i < 32 -> (5 * i + 1) % 16
      [] i >= 32 /\ i < 48 -> (3 * i + 5) % 16
      [] i >= 48 -> (7 * i) % 16

\* step i on the working words v = <<a, b, c, d>> with block words m
Md5Step(v, m, i) ==
    <<v[4],
      WAdd(v[2],
           RotateLeft32(WAdd(WAdd(WAdd(v[1], Md5Mix(i, v[2], v[3], v[4])),
                                  Md5RC[i + 1]),
                             m[Md5WordIndex(i) + 1]),
                        Md5Shifts[(i \div 16) + 1][(i % 4) + 1])),
      v[2], v[3]>>

RECURSIVE Md5Steps(_, _, _, _)
\* steps lo..hi-1, in order (the range is halved to keep the evaluation
\* shallow: the first half runs, then the second half on its result)
Md5Steps(v, m, lo, hi) ==
    IF Len(v) # 4 \/ hi <= lo THEN v
    ELSE IF hi = lo + 1 THEN Md5Step(v, m, lo)
    ELSE Md5Steps(Md5Steps(v, m, lo, (lo + hi) \div 2), m, (lo + hi) \div 2, hi)

\* compress one 64-byte block into the four state words
Md5BlockWords(block) ==
    [g \in 1..16 |-> WFromLeBytes(SubSeq(block, 4 * g - 3, 4 * g))]

\* the feed-forward: the working words are added to the state
Md5AddState(state, words) == [j \in 1..4 |-> WAdd(state[j], words[j])]

Md5CompressBlock(state, block) ==
    Md5AddState(state, Md5Steps(state, Md5BlockWords(block), 0, 64))

RECURSIVE Md5CompressAll(_, _)
Md5CompressAll(state, blocks) ==
    IF blocks = <<>> THEN state
    ELSE Md5CompressAll(Md5CompressBlock(state, Head(blocks)), Tail(blocks))

\* the words a compression state stands for: the compression function
\* applied to its initial vector and the blocks compressed into it
Md5Words(st) == Md5CompressAll(st.iv, st.absorbed)

\* the bytes a digest stands for, given the words of its state
DigestBytes(words, bytes) ==
    [i \in 1..Len(bytes) |-> WToLeBytes(words[bytes[i].w + 1])[bytes[i].b + 1]]

\* ------------------------------------------------------------------------
\* The known answer of the crate documentation (md5/src/lib.rs:5-19): the
\* text is absorbed in any number of pieces and finalized
\* ------------------------------------------------------------------------

\* the most update calls the text is split over
MaxPieces == 5

\* b"hello world"
Text == <<104, 101, 108, 108, 111, 32, 119, 111, 114, 108, 100>>

\* hex!("5eb63bbbe01eeed093cb22bb8f5acdc3")
TextDigest == <<\h5e, \hb6, \h3b, \hbb, \he0, \h1e, \hee, \hd0,
                \h93, \hcb, \h22, \hbb, \h8f, \h5a, \hcd, \hc3>>

InitKat ==
    /\ alg = "Md5"
    /\ req = NoReq
    /\ lens = 0..Len(Text)
    /\ rlens = {}
    /\ InitCommon

\* hasher.update(piece): the next piece of the text
UpdateText ==
    /\ pc = "ready"
    /\ nupd < MaxPieces
    /\ \E k \in lens :
         /\ fed + k <= Len(Text)
         /\ hasher' = WrapperUpdate(alg, hasher, SubSeq(Text, fed + 1, fed + k))
         /\ fed' = fed + k
    /\ nupd' = nupd + 1
    /\ last' = "update"
    /\ UNCHANGED <<alg, req, lens, pc, start, nreset, out, readers, rlens, nread>>

NextKat == New \/ UpdateText \/ Finalize

SpecKat == InitKat /\ [][NextKat]_vars

\* C15: MD5 of the 11-byte message "hello world" is
\* 5eb63bbbe01eeed093cb22bb8f5acdc3, the state words serialized
\* little-endian in order.
KnownAnswer ==
    (pc = "done" /\ fed = Len(Text)) =>
        DigestBytes(Md5Words(out.state), out.bytes) = TextDigest

\* C15 happens: the whole text was absorbed, in more than one piece, and
\* the digest was produced
KnownAnswerWitness ==
    /\ pc = "done"
    /\ fed = Len(Text)
    /\ nupd >= 2
    /\ Len(out.bytes) = 16

\* ------------------------------------------------------------------------
\* Finalization at every interesting remainder: the runs feed pieces of one
\* length p and whole blocks, p around the places where the padding changes
\* shape
\* ------------------------------------------------------------------------

\* the cores that pad with 0x80, zeros and the bit length
LengthSuffixNames == BitLenNames \ {"Tiger"}

\* the sponge cores
SpongeNames == Sha3FixedNames \cup ShakeNames

\* the width of what finalize writes behind the padding, in bytes
SuffixWidth(a) ==
    IF a \in BitLenNames THEN 2 * CounterLimbs(a)
    ELSE IF a \in GroestlNames THEN 8
    ELSE 0

\* the piece lengths of the runs of a core
PadPositions(a) ==
    LET bs == BlockSize(a)
        w  == SuffixWidth(a)
    IN  {0, 1, bs - w - 2, bs - w - 1, bs - w, bs - 2, bs - 1}

InitPad ==
    /\ alg \in LengthSuffixNames \cup SpongeNames \cup {"Md2"}
    /\ req = NoReq
    /\ \E p \in PadPositions(alg) : lens = {p, BlockSize(alg)}
    /\ rlens = {}
    /\ InitCommon

NextPad == New \/ Update \/ Finalize

SpecPad == InitPad /\ [][NextPad]_vars

\* history: the remainder pending when finalize was called
Remainder == Drop(msg, Len(msg) - (Len(msg) % BlockSize(alg)))

\* the blocks the finalization compressed: those behind the whole blocks of
\* the message
FinalBlocks(st) == Drop(st.absorbed, Len(msg) \div BlockSize(alg))

\* C18: for MD5, SHA-1, SHA-2, SM3, RIPEMD and Tiger2 with a pending
\* remainder of p bytes and a length field of w bytes (8; 16 for the SHA-512
\* family), finalize compresses exactly one block when p + 1 + w <= block
\* size and exactly two otherwise; the compressed bytes are the remainder,
\* then 0x80, then zeros, with the length field in the last w bytes of the
\* last block.
LengthSuffixPadding ==
    (pc = "done" /\ alg \in LengthSuffixNames) =>
        LET bs  == BlockSize(alg)
            p   == Len(Remainder)
            w   == SuffixWidth(alg)
            pad == FinalBlocks(out.state)
            all == Flatten(pad)
        IN  /\ Len(pad) = IF p + 1 + w <= bs THEN 1 ELSE 2
            /\ Len(all) = bs * Len(pad)
            /\ Take(all, p) = Remainder
            /\ all[p + 1] = 128
            /\ \A i \in (p + 2)..(Len(all) - w) : all[i] = 0
            /\ Drop(all, Len(all) - w)
                   = LengthBytes(WNat(8 * Len(msg), CounterLimbs(alg)))

\* C18 happens: the remainder leaves room for 0x80 but not for the length
\* field, and finalize compressed two blocks
LengthSuffixPaddingWitness ==
    /\ pc = "done"
    /\ alg \in LengthSuffixNames
    /\ nupd >= 2
    /\ Len(msg) > BlockSize(alg)
    /\ Len(Remainder) = BlockSize(alg) - SuffixWidth(alg)
    /\ Len(FinalBlocks(out.state)) = 2

\* the domain byte the claim gives each sponge family
DomainByte(a) ==
    CASE a \in {"Keccak224", "Keccak256", "Keccak384", "Keccak512",
                 "Keccak256Full"} -> 1
      [] a \in {"Sha3_224", "Sha3_256", "Sha3_384", "Sha3_512"} -> 6
      [] a \in ShakeNames -> 31

\* C19: for SHA-3, SHAKE and Keccak and every remainder position p < rate,
\* finalize absorbs exactly one block: the remainder, the domain byte at
\* index p (0x01 Keccak, 0x06 SHA-3, 0x1f SHAKE), zeros, and 0x80 combined
\* into index rate - 1; when p = rate - 1 the single last byte is
\* domain | 0x80; no length field is written and no second block absorbed.
SpongePadding ==
    (pc = "done" /\ alg \in SpongeNames) =>
        LET rate == BlockSize(alg)
            p    == Len(Remainder)
            pad  == FinalBlocks(out.state)
            d    == DomainByte(alg)
        IN  /\ Len(pad) = 1
            /\ Len(pad[1]) = rate
            /\ Take(pad[1], p) = Remainder
            /\ \A i \in (p + 2)..(rate - 1) : pad[1][i] = 0
            /\ IF p = rate - 1
               THEN pad[1][rate] = d + 128
               ELSE pad[1][p + 1] = d /\ pad[1][rate] = 128

\* C19 happens: the remainder fills the block up to its last byte, where the
\* domain byte and 0x80 meet
SpongePaddingWitness ==
    /\ pc = "done"
    /\ alg \in SpongeNames
    /\ nupd >= 2
    /\ Len(msg) > BlockSize(alg)
    /\ Len(Remainder) = BlockSize(alg) - 1
    /\ FinalBlocks(out.state)[1][BlockSize(alg)] = DomainByte(alg) + 128

\* history: the whole blocks of the message, as MD2 compresses them
Md2MessageBlocks ==
    [i \in 1..(Len(msg) \div 16) |->
        [block |-> SubSeq(msg, 16 * i - 15, 16 * i), sum |-> <<>>]]

\* C20: MD2 finalize with p pending bytes compresses exactly two blocks:
\* the remainder followed by k = 16 - p bytes of value k (sixteen bytes of
\* value 16 when p = 0), then one block equal to the running checksum,
\* accumulated over every absorbed block including the padding block; the
\* digest is the first 16 bytes of the 48-byte state.
Md2Finalization ==
    (pc = "done" /\ alg = "Md2") =>
        LET p   == Len(Remainder)
            k   == 16 - p
            pad == FinalBlocks(out.state)
        IN  /\ Len(pad) = 2
            /\ pad[1] = [block |-> Remainder \o Rep(k, k), sum |-> <<>>]
            /\ pad[2] = [block |-> <<>>,
                         sum   |-> Md2MessageBlocks \o <<pad[1]>>]
            /\ Len(out.state.iv) = 48
            /\ out.bytes = [j \in 1..16 |-> [w |-> j - 1, b |-> 0]]

\* C20 happens: a message of more than a block that ends on a block
\* boundary, so that the padding block is sixteen bytes of value 16
Md2FinalizationWitness ==
    /\ pc = "done"
    /\ alg = "Md2"
    /\ nupd >= 2
    /\ Len(msg) >= 32
    /\ Len(Remainder) = 0
    /\ FinalBlocks(out.state)[1].block = Rep(16, 16)
    /\ Len(FinalBlocks(out.state)[2].sum) = Len(msg) \div 16 + 1

\* ------------------------------------------------------------------------
\* Finalization of the cores with a tail of their own: Streebog, Shabal,
\* Tiger against Tiger2, Groestl and BLAKE2, at the same remainders
\* ------------------------------------------------------------------------

TailNames == StreebogNames \cup ShabalNames \cup {"Tiger", "Tiger2"}
             \cup GroestlNames \cup Blake2Names

InitTail ==
    /\ alg \in TailNames
    /\ req = IF alg \in VarNames THEN SizeReq(MaxOutputSize(alg)) ELSE NoReq
    /\ \E p \in PadPositions(alg) : lens = {p, BlockSize(alg)}
    /\ rlens = {}
    /\ InitCommon

NextTail == New \/ Update \/ Finalize

SpecTail == InitTail /\ [][NextTail]_vars

\* the block finalize makes of the pending remainder with the terminator
\* byte delim: remainder, delim, zeros
Terminated(delim) ==
    Remainder \o <<delim>> \o Rep(0, BlockSize(alg) - Len(Remainder) - 1)

\* C21 as stated: at finalize the pending remainder of Streebog is completed
\* to one 64-byte block as remainder, then a single byte 0x80, then zeros,
\* with no length field in the block.
StreebogPadsWithHighBit ==
    (pc = "done" /\ alg \in StreebogNames) =>
        /\ Len(FinalBlocks(out.state)) = 3
        /\ FinalBlocks(out.state)[1].m = Terminated(128)

\* C21, amended: the terminator byte is 0x01 (digest_pad(1, &[], ..)): the
\* remainder is completed to one 64-byte block as remainder, 0x01, zeros,
\* with no length field in the block; that block is the only one compressed
\* before the two transforms over the counters.
StreebogPadding ==
    (pc = "done" /\ alg \in StreebogNames) =>
        /\ Len(FinalBlocks(out.state)) = 3
        /\ FinalBlocks(out.state)[1].m = Terminated(1)
        /\ Len(FinalBlocks(out.state)[1].m) = 64

\* C21 happens: a remainder one byte short of a block, so that the
\* terminator is the last byte of the padded block
StreebogPaddingWitness ==
    /\ pc = "done"
    /\ alg \in StreebogNames
    /\ nupd >= 2
    /\ Len(msg) > 64
    /\ Len(Remainder) = 63
    /\ FinalBlocks(out.state)[1].m[64] = 1

\* the n little-endian bytes of a number below 2^24
LeBytesOfNat(v, n) ==
    [i \in 1..n |-> CASE i = 1 -> v % 256
                      [] i = 2 -> (v \div 256) % 256
                      [] i = 3 -> (v \div 65536) % 256
                      [] OTHER -> 0]

\* history: the whole blocks of the message
MessageBlocks ==
    LET bs == BlockSize(alg)
    IN  [i \in 1..(Len(msg) \div bs) |-> SubSeq(msg, bs * (i - 1) + 1, bs * i)]

RECURSIVE SumOfBlocks(_)
\* the sum modulo 2^512 of 64-byte blocks read as little-endian integers
SumOfBlocks(blocks) ==
    IF blocks = <<>> THEN WNat(0, 32)
    ELSE WAdd(WFromLeBytes(Head(blocks)), SumOfBlocks(Tail(blocks)))

\* C22: Streebog finalize applies g exactly three times, in this order:
\* once on the padded final block keyed by the current counter N, after
\* which N is advanced by 8 * p bits and the padded block added into sigma;
\* then g with zero counter over N; then g with zero counter over sigma;
\* the last two leave N and sigma as they are.
StreebogFinalizationOrder ==
    (pc = "done" /\ alg \in StreebogNames) =>
        LET g  == FinalBlocks(out.state)
            st == hasher.core.state
        IN  /\ Len(g) = 3
            /\ g[1] = [n |-> LeBytesOfNat(512 * Len(MessageBlocks), 64),
                       m |-> Terminated(1)]
            /\ ToBytes(st.n) = LeBytesOfNat(8 * Len(msg), 64)
            /\ ToBytes(st.sigma)
                   = WToLeBytes(SumOfBlocks(MessageBlocks \o <<Terminated(1)>>))
            /\ g[2] = [n |-> Rep(0, 64), m |-> ToBytes(st.n)]
            /\ g[3] = [n |-> Rep(0, 64), m |-> ToBytes(st.sigma)]

\* C22 happens: whole blocks and a remainder were absorbed, so that N and
\* sigma differ and neither is zero when the two last transforms run
StreebogFinalizationOrderWitness ==
    /\ pc = "done"
    /\ alg \in StreebogNames
    /\ Len(MessageBlocks) >= 1
    /\ Len(Remainder) > 0
    /\ Len(FinalBlocks(out.state)) = 3
    /\ FinalBlocks(out.state)[2].m # FinalBlocks(out.state)[3].m
    /\ FinalBlocks(out.state)[2].m # Rep(0, 64)

\* what one operation of the Shabal state leaves in the record of a, b, c
ShabalStep(op, m, w) == [op |-> op, m |-> m, w |-> w]

\* xor the counter w into a, then permute with the message words m
ShabalXorPerm(m, w) == <<ShabalStep("xor_w", <<>>, w), ShabalStep("perm", m, <<>>)>>

\* swap b and c, xor the counter w into a, then permute with m
ShabalSwapXorPerm(m, w) == <<ShabalStep("swap_b_c", <<>>, <<>>)>> \o ShabalXorPerm(m, w)

\* C23: Shabal finalize absorbs exactly one padded block (remainder, 0x80,
\* zeros, no length field): the permutation is applied once for that block
\* and then exactly three more times with the same message block, b and c
\* swapped and the block counter xored into a before each; the counter is
\* not incremented, and the digest is the last OutputSize / 4 words of b,
\* little-endian.
ShabalFinalization ==
    (pc = "done" /\ alg \in ShabalNames) =>
        LET m  == ReadM(Terminated(128))
            w  == <<WNat(Len(MessageBlocks) + 1, 2), WNat(0, 2)>>
            os == OutputSize(alg)
        IN  /\ Drop(out.state.absorbed, 5 * Len(MessageBlocks))
                   = <<ShabalStep("add_m", m, <<>>)>> \o ShabalXorPerm(m, w)
                        \o ShabalSwapXorPerm(m, w) \o ShabalSwapXorPerm(m, w)
                        \o ShabalSwapXorPerm(m, w)
            /\ <<hasher.core.state.wlow, hasher.core.state.whigh>> = w
            /\ out.array = "b"
            /\ out.bytes = [i \in 1..os |-> [w |-> 16 - os \div 4 + (i - 1) \div 4,
                                             b |-> (i - 1) % 4]]

\* C23 happens: blocks were compressed before, so the counter is past its
\* initial value, and a remainder was padded
ShabalFinalizationWitness ==
    /\ pc = "done"
    /\ alg \in ShabalNames
    /\ nupd >= 2
    /\ Len(MessageBlocks) >= 2
    /\ Len(Remainder) > 0
    /\ Len(out.state.absorbed) = 5 * Len(MessageBlocks) + 12
    /\ hasher.core.state.wlow = WNat(Len(MessageBlocks) + 1, 2)

\* the other of Tiger and Tiger2
TigerTwin(a) == IF a = "Tiger" THEN "Tiger2" ELSE "Tiger"

\* the terminator byte the claim gives each of the two
TigerTerminator(a) == IF a = "Tiger" THEN 1 ELSE 128

\* C24: for every message, Tiger and Tiger2 start from the same initial
\* state and pass identical block sequences to the same compression
\* function, except that the byte following the message is 0x01 for Tiger
\* and 0x80 for Tiger2; both append the same 64-bit little-endian bit
\* length and take the same one-or-two-block padding branch.
TigerAgainstTiger2 ==
    (pc = "done" /\ alg \in {"Tiger", "Tiger2"}) =>
        LET twin   == OneShot(TigerTwin(alg), NoReq, msg).out
            mine   == Flatten(out.state.absorbed)
            theirs == Flatten(twin.state.absorbed)
        IN  /\ out.state.iv = twin.state.iv
            /\ Len(out.state.absorbed) = Len(twin.state.absorbed)
            /\ Len(mine) = Len(theirs)
            /\ \A i \in 1..Len(mine) : i # Len(msg) + 1 => mine[i] = theirs[i]
            /\ mine[Len(msg) + 1] = TigerTerminator(alg)
            /\ theirs[Len(msg) + 1] = TigerTerminator(TigerTwin(alg))
            /\ Drop(mine, Len(mine) - 8) = LeBytesOfNat(8 * Len(msg), 8)
            /\ out.bytes = twin.bytes

\* C24 happens: Tiger finalized a message whose remainder takes the
\* two-block branch, and the two block sequences differ
TigerAgainstTiger2Witness ==
    /\ pc = "done"
    /\ alg = "Tiger"
    /\ nupd >= 2
    /\ Len(Remainder) = 56
    /\ Len(FinalBlocks(out.state)) = 2
    /\ out.state # OneShot("Tiger2", NoReq, msg).out.state

\* C27: for Groestl the block count written big-endian in the last 8 bytes
\* of the padding equals the total number of blocks passed to compression,
\* the one or two padding blocks included: finalize adds 2 when
\* buffer.remaining() <= 8, else 1, which is when the padding takes two
\* blocks and when it takes one.
GroestlBlockCounter ==
    (pc = "done" /\ alg \in GroestlNames) =>
        LET bs     == BlockSize(alg)
            p      == Len(Remainder)
            blocks == out.state.absorbed
            pad    == FinalBlocks(out.state)
            final  == blocks[Len(blocks)]
        IN  /\ Len(blocks) = Len(MessageBlocks) + Len(pad)
            /\ Len(pad) = IF bs - p <= 8 THEN 2 ELSE 1
            /\ Len(pad) = IF p + 1 + 8 <= bs THEN 1 ELSE 2
            /\ Take(Flatten(pad), p + 1) = Remainder \o <<128>>
            /\ Drop(final, bs - 8) = WToBeBytes(WNat(Len(blocks), 4))

\* C27 happens: exactly 8 bytes remained in the buffer after some whole
\* blocks, and finalize compressed two padding blocks
GroestlBlockCounterWitness ==
    /\ pc = "done"
    /\ alg \in GroestlNames
    /\ nupd >= 2
    /\ Len(MessageBlocks) >= 1
    /\ BlockSize(alg) - Len(Remainder) = 8
    /\ Len(out.state.absorbed) = Len(MessageBlocks) + 2

\* the number of compressions BLAKE2 makes for a message of n bytes
Blake2Compressions(n) ==
    LET bs == BlockSize(alg)
    IN  IF n = 0 THEN 1 ELSE (n + bs - 1) \div bs

\* C28: for BLAKE2b and BLAKE2s a message of L bytes (L = 0 and L a non-zero
\* multiple of the block size included) is compressed in exactly
\* max(1, ceil(L / block size)) calls; exactly one of them, the last,
\* carries f0 = all-ones, and the counter t it sees is L.  A non-empty
\* block-aligned message is finalized on its own last full block, not on an
\* extra zero block; a partial last block is zero-filled to the block size.
Blake2FinalBlock ==
    (pc = "done" /\ alg \in Blake2Names) =>
        LET bs  == BlockSize(alg)
            wl  == Blake2WordLimbs(alg)
            L   == Len(msg)
            n   == Blake2Compressions(L)
            c   == out.state.absorbed
        IN  /\ Len(c) = n
            /\ \A i \in 1..(n - 1) :
                   /\ c[i].f0 = WNat(0, wl)
                   /\ c[i].f1 = WNat(0, wl)
                   /\ c[i].block = SubSeq(msg, bs * (i - 1) + 1, bs * i)
                   /\ c[i].t0 = WNat(bs * i, wl)
            /\ c[n].f0 = Rep(Limb - 1, wl)
            /\ c[n].f1 = WNat(0, wl)
            /\ c[n].t0 = WNat(L, wl)
            /\ c[n].t1 = WNat(0, wl)
            /\ c[n].block = Drop(msg, bs * (n - 1)) \o Rep(0, bs * n - L)
            /\ Counter(alg, hasher.core) = WNat(L, 4)

\* C28 happens: a message of two whole blocks, fed in several updates, was
\* finalized on its own second block
Blake2FinalBlockWitness ==
    /\ pc = "done"
    /\ alg \in Blake2Names
    /\ nupd >= 2
    /\ Len(msg) = 2 * BlockSize(alg)
    /\ Len(out.state.absorbed) = 2
    /\ out.state.absorbed[2].block = Drop(msg, BlockSize(alg))
    /\ out.state.absorbed[2].f0 = Rep(Limb - 1, Blake2WordLimbs(alg))

\* ------------------------------------------------------------------------
\* The counters of Shabal and Streebog, from zero and across their range
\* ------------------------------------------------------------------------

\* the operations applied to the Shabal arrays since the hasher was taken up
ShabalOps ==
    LET e == hasher.core.state.abc.absorbed
    IN  IF ResumedBlocks = WNat(0, WideLimbs) THEN e ELSE Tail(e)

\* the 64-bit value whigh * 2^32 + wlow a pair of counter words stands for
ShabalW(wlow, whigh) == wlow \o whigh

\* one more than the number of the blocks before the k-th, modulo 2^64
ShabalExpectedW(k) == WCast(WAdd(ResumedBlocks, WNat(k, WideLimbs)), 4)

\* C29: in every reachable state of a Shabal hasher the counter
\* W = whigh * 2^32 + wlow equals 1 + the number of blocks compressed so
\* far, modulo 2^64, whigh being incremented exactly when wlow wraps to 0;
\* the value xored into A for the k-th block, the final padded block
\* included, is k.
ShabalCounter ==
    (alg \in ShabalNames /\ pc \in {"ready", "done"}) =>
        LET ops == ShabalOps
            nb  == IF pc = "ready" THEN Len(ops) \div 5 ELSE (Len(ops) - 12) \div 5
            st  == hasher.core.state
        IN  /\ Len(ops) = IF pc = "ready" THEN 5 * nb ELSE 5 * nb + 12
            /\ nb = (fed - start) \div BlockSize(alg)
            /\ ShabalW(st.wlow, st.whigh) = ShabalExpectedW(nb + 1)
            /\ \A k \in 1..nb :
                   /\ ops[5 * k - 3].op = "xor_w"
                   /\ ShabalW(ops[5 * k - 3].w[1], ops[5 * k - 3].w[2])
                         = ShabalExpectedW(k)
            /\ (pc = "done") =>
                   \A j \in {2, 5, 8, 11} :
                       /\ ops[5 * nb + j].op = "xor_w"
                       /\ ShabalW(ops[5 * nb + j].w[1], ops[5 * nb + j].w[2])
                             = ShabalExpectedW(nb + 1)
            /\ Cardinality({i \in 1..Len(ops) : ops[i].op = "xor_w"})
                   = IF pc = "ready" THEN nb ELSE nb + 4

\* C29 happens: wlow has wrapped to 0 and carried into whigh, after blocks
\* whose counter values were xored in before and after the wrap
ShabalCounterWitness ==
    /\ alg \in ShabalNames
    /\ pc = "done"
    /\ ResumedBlocks # WNat(0, WideLimbs)
    /\ Len(ShabalOps) = 5 * 3 + 12
    /\ ShabalOps[2].w = <<WNat(65534, 1) \o WNat(65535, 1), WNat(65535, 1) \o WNat(65535, 1)>>
    /\ ShabalOps[12].w = <<WNat(0, 2), WNat(0, 2)>>
    /\ hasher.core.state.wlow = WNat(1, 2)
    /\ hasher.core.state.whigh = WNat(0, 2)

\* the calls of g since the Streebog hasher was taken up
StreebogCalls ==
    LET e == hasher.core.state.h.absorbed
    IN  IF ResumedBlocks = WNat(0, WideLimbs) THEN e ELSE Tail(e)

\* 512 times the number of the blocks before the k-th (k from 0), modulo
\* 2^512, as the 64 bytes g is keyed with
StreebogExpectedN(k) ==
    WToLeBytes(WCast(WMul(WAdd(ResumedBlocks, WNat(k, WideLimbs)), 512), 32))

\* C30: while a Streebog hasher absorbs, N is 512 times the number of full
\* blocks compressed, modulo 2^512, the k-th block (k from 0) being
\* compressed with N = 512 * k; after the padded block N is 8 * L for a
\* message of L bytes; sigma is the sum modulo 2^512 of all compressed
\* blocks, the padded one included, read as little-endian 512-bit integers,
\* the carries passing across the eight 64-bit limbs; update_n is only
\* called with len <= 64, so that 8 * len never overflows.
StreebogCounters ==
    (alg \in StreebogNames /\ pc \in {"ready", "done"}) =>
        LET g   == StreebogCalls
            nb  == (fed - start) \div BlockSize(alg)
            st  == hasher.core.state
            all == IF pc = "ready" THEN MessageBlocks
                   ELSE MessageBlocks \o <<g[nb + 1].m>>
        IN  /\ Len(g) = IF pc = "ready" THEN nb ELSE nb + 3
            /\ \A k \in 0..(Len(all) - 1) : g[k + 1].n = StreebogExpectedN(k)
            /\ \A k \in 1..nb : g[k].m = MessageBlocks[k]
            /\ (pc = "ready") =>
                   /\ ToBytes(st.n) = StreebogExpectedN(nb)
                   /\ Pos <= 64
            /\ (pc = "done") =>
                   /\ g[nb + 1].m = Terminated(1)
                   /\ ToBytes(st.n) = WToLeBytes(WCast(WMul(TrueBytes, 8), 32))
            /\ ToBytes(st.sigma) = WToLeBytes(SumOfBlocks(all))
            /\ \A len \in 0..64 : ~WMulOverflows(WNat(len, 4), 8)

\* C30 happens: N has passed 2^512 while whole blocks were absorbed, a
\* carry has crossed the first 64-bit limb of sigma, and a remainder was
\* finalized
StreebogCountersWitness ==
    /\ alg \in StreebogNames
    /\ pc = "done"
    /\ ResumedBlocks # WNat(0, WideLimbs)
    /\ (fed - start) \div BlockSize(alg) >= 2
    /\ (fed - start) % BlockSize(alg) = 1
    /\ StreebogCalls[1].n # Rep(0, 64)
    /\ StreebogCalls[3].n = Rep(0, 64)
    /\ ToBytes(hasher.core.state.n) = LeBytesOfNat(8 * (fed - start - 128), 64)
    /\ WAddOverflows(WFromLeBytes(SubSeq(msg, 1, 8)),
                     WFromLeBytes(SubSeq(msg, 65, 72)))

\* ------------------------------------------------------------------------
\* BLAKE2 constructed with parameters
\* ------------------------------------------------------------------------

\* a salt of n bytes, none of them zero
SaltBytes(n) == [i \in 1..n |-> (i * 11 + 1) % 256]

\* a persona of n bytes, none of them zero
PersonaBytes(n) == [i \in 1..n |-> (i * 5 + 2) % 256]

\* the BLAKE2 cores, with salts and personas of every length up to past half
\* the state width, and key and output sizes at and past the maximum
InitParams ==
    /\ alg \in Blake2Names
    /\ \E sl, pl \in 0..(Blake2Bytes(alg) \div 2 + MaxExcess) :
       \E ko \in {<<0, Blake2Bytes(alg)>>, <<Blake2Bytes(alg), 1>>,
                  <<Blake2Bytes(alg) + 1, Blake2Bytes(alg)>>,
                  <<0, Blake2Bytes(alg) + 1>>} :
          req = ParamReq(SaltBytes(sl), PersonaBytes(pl), ko[1], ko[2])
    /\ lens = {}
    /\ rlens = {}
    /\ InitCommon

NextParams == New

SpecParams == InitParams /\ [][NextParams]_vars

\* the capacity of salt and of persona in bytes: two words
StatedCapacity(a) == IF a = "Blake2bVar" THEN 16 ELSE 8

\* half the state width in bytes
HalfState(a) == IF a = "Blake2bVar" THEN 32 ELSE 16

\* the arguments of the call are over what new_with_params allows
OverCapacity ==
    \/ Len(req.salt) > StatedCapacity(alg)
    \/ Len(req.persona) > StatedCapacity(alg)
    \/ req.key_size > StatedMax(alg)
    \/ req.output_size > StatedMax(alg)

\* C7 as stated: new_with_params with a salt, persona, key size or output
\* size over its limit returns the construction error.
OverCapacityIsAnErrorValue ==
    (pc # "start" /\ OverCapacity) => (pc = "err" /\ hasher = NoHasher)

\* C7, amended: new_with_params with a salt or persona over two words, or a
\* key size or output size over the maximum, panics on an assertion: it
\* returns nothing, neither an error value nor a hasher; with arguments
\* within the limits it returns a core.
OverCapacityPanics ==
    pc # "start" =>
        /\ pc # "err"
        /\ (pc = "panic") <=> OverCapacity
        /\ (pc = "panic") => hasher = NoHasher
        /\ (pc # "panic") => (pc = "ready" /\ hasher # NoHasher)

\* C7 happens: a call with only the salt too long, by one byte
OverCapacityPanicsWitness ==
    /\ pc = "panic"
    /\ last = "new"
    /\ Len(req.salt) = StatedCapacity(alg) + 1
    /\ Len(req.persona) <= StatedCapacity(alg)
    /\ req.key_size <= StatedMax(alg)
    /\ req.output_size <= StatedMax(alg)

\* v followed by zero bytes up to n bytes
ZeroPadded(v, n) == v \o Rep(0, n - Len(v))

\* C8 as stated: every salt and persona of at most half the state width in
\* bytes (32 for BLAKE2b, 16 for BLAKE2s) is accepted.
HalfStateAccepted ==
    (/\ pc # "start"
     /\ Len(req.salt) <= HalfState(alg)
     /\ Len(req.persona) <= HalfState(alg)
     /\ req.key_size <= StatedMax(alg)
     /\ req.output_size <= StatedMax(alg)) => pc = "ready"

\* C8, amended: salt and persona are accepted up to two words (16 bytes for
\* BLAKE2b, 8 for BLAKE2s) and no further, and a shorter value gives the
\* initial state of the same value followed by zero bytes up to that length.
TwoWordsAccepted ==
    (/\ pc # "start"
     /\ req.key_size <= StatedMax(alg)
     /\ req.output_size <= StatedMax(alg)) =>
        /\ (pc = "ready") <=> (/\ Len(req.salt) <= StatedCapacity(alg)
                               /\ Len(req.persona) <= StatedCapacity(alg))
        /\ (pc = "ready") =>
              LET full == Blake2NewWithParams(alg,
                              ZeroPadded(req.salt, StatedCapacity(alg)),
                              ZeroPadded(req.persona, StatedCapacity(alg)),
                              req.key_size, req.output_size)
              IN  ~full.panicked /\ hasher.core = full.core

\* C8 happens: a salt and a persona, both shorter than two words and neither
\* empty, have been accepted
TwoWordsAcceptedWitness ==
    /\ pc = "ready"
    /\ last = "new"
    /\ req.mode = "params"
    /\ Len(req.salt) > 0
    /\ Len(req.salt) < StatedCapacity(alg)
    /\ Len(req.persona) > 0
    /\ Len(req.persona) < StatedCapacity(alg)

====
